---- MODULE Spec2Model ----
(***************************************************************************)
(* ISO-8601 grammar, validity and whole-string conversion of the iso-8601  *)
(* crate.  Input is a sequence of bytes (0..255); every parser is an        *)
(* operator from the input to a nom IResult, computed the way the           *)
(* combinators of the source compute it.                                    *)
(***************************************************************************)
EXTENDS Integers, Sequences, FiniteSets, TLC

VARIABLES input, op, out

vars == <<input, op, out>>

(***************************************************************************)
(* Bytes the grammar names.                                                 *)
(***************************************************************************)
CH_T == 84
CH_W == 87
CH_Z == 90
CH_COLON == 58
CH_MINUS == 45
CH_PLUS == 43
CH_DOT == 46
CH_e == 101
CH_E == 69
CH_0 == 48
CH_9 == 57
CH_SPACE == 32

\* "-\u{2212}\u{2010}" as the bytes of the &str handed to one_of
SIGN_MINUS_BYTES == <<45, 226, 136, 146, 226, 128, 144>>

\* UTF-8 encodings of U+2212 and U+2010
U2212 == <<226, 136, 146>>
U2010 == <<226, 128, 144>>

(***************************************************************************)
(* nom::IResult: Ok((rest, val)) | Err(Error(code)) | Err(Incomplete) |     *)
(* Err(Failure(code)).                                                      *)
(***************************************************************************)
Ok(rest, val) == [tag |-> "Ok", rest |-> rest, val |-> val]
Error(code) == [tag |-> "Error", code |-> code]
Failure(code) == [tag |-> "Failure", code |-> code]
Incomplete == [tag |-> "Incomplete"]

IsOk(r) == r.tag = "Ok"

None == [some |-> FALSE]
Some(v) == [some |-> TRUE, v |-> v]
unwrap_or(o, d) == IF o.some THEN o.v ELSE d
flatten(o) == IF o.some THEN o.v ELSE None

Drop(i, n) == SubSeq(i, n + 1, Len(i))
Take(i, n) == SubSeq(i, 1, n)

\* a value computed once and handed to what uses it (a let binding)
Bind(v, F(_)) == CHOOSE y \in {F(r) : r \in {v}} : TRUE

\* FindToken for a byte slice: some element equals the token
find_token(s, c) == \E k \in 1..Len(s) : s[k] = c

(***************************************************************************)
(* nom combinators, as used by the grammar.                                 *)
(***************************************************************************)
\* character::complete::char
char(c, i) ==
    IF Len(i) > 0 /\ i[1] = c THEN Ok(Drop(i, 1), c) ELSE Error("Char")

\* character::streaming::char
char_streaming(c, i) ==
    IF Len(i) = 0 THEN Incomplete
    ELSE IF i[1] = c THEN Ok(Drop(i, 1), c) ELSE Error("Char")

\* character::streaming::one_of over a byte input: the first byte is looked
\* up among the bytes of the list and one byte is consumed
one_of_streaming(list, i) ==
    IF Len(i) = 0 THEN Incomplete
    ELSE IF find_token(list, i[1]) THEN Ok(Drop(i, 1), i[1]) ELSE Error("OneOf")

is_digit(b) == b >= CH_0 /\ b <= CH_9

\* index of the first byte that is not a digit, 0 when there is none
RECURSIVE position_not_digit(_, _)
position_not_digit(i, k) ==
    IF k > Len(i) THEN 0
    ELSE IF ~is_digit(i[k]) THEN k
    ELSE position_not_digit(i, k + 1)

\* bytes::complete::take_while_m_n(m, n, is_digit)
take_while_m_n(m, n, i) ==
    Bind(position_not_digit(i, 1),
         LAMBDA p : IF p # 0
                    THEN IF p - 1 >= m
                         THEN IF p - 1 <= n THEN Ok(Drop(i, p - 1), Take(i, p - 1))
                              ELSE Ok(Drop(i, n), Take(i, n))
                         ELSE Error("TakeWhileMN")
                    ELSE IF Len(i) >= n THEN Ok(Drop(i, n), Take(i, n))
                         ELSE IF Len(i) >= m THEN Ok(<<>>, i)
                         ELSE Error("TakeWhileMN"))

\* character::complete::digit1
digit1(i) ==
    Bind(position_not_digit(i, 1),
         LAMBDA p : IF p = 1 \/ (p = 0 /\ Len(i) = 0) THEN Error("Digit")
                    ELSE IF p = 0 THEN Ok(<<>>, i)
                    ELSE Ok(Drop(i, p - 1), Take(i, p - 1)))

map(p(_), f(_), i) ==
    Bind(p(i), LAMBDA r : IF IsOk(r) THEN Ok(r.rest, f(r.val)) ELSE r)

opt(p(_), i) ==
    Bind(p(i), LAMBDA r : IF IsOk(r) THEN Ok(r.rest, Some(r.val))
                          ELSE IF r.tag = "Error" THEN Ok(i, None)
                          ELSE r)

cond(b, p(_), i) ==
    IF b THEN Bind(p(i), LAMBDA r : IF IsOk(r) THEN Ok(r.rest, Some(r.val)) ELSE r)
    ELSE Ok(i, None)

complete(p(_), i) ==
    Bind(p(i), LAMBDA r : IF r.tag = "Incomplete" THEN Error("Complete") ELSE r)

peek(p(_), i) ==
    Bind(p(i), LAMBDA r : IF IsOk(r) THEN Ok(i, r.val) ELSE r)

not(p(_), i) ==
    Bind(p(i), LAMBDA r : IF IsOk(r) THEN Error("Not")
                          ELSE IF r.tag = "Error" THEN Ok(i, <<>>)
                          ELSE r)

cut(p(_), i) ==
    Bind(p(i), LAMBDA r : IF r.tag = "Error" THEN Failure(r.code) ELSE r)

\* branch::alt: the next alternative is tried on Err::Error only; when all
\* fail the last error is returned
alt2(p(_), q(_), i) ==
    Bind(p(i), LAMBDA r : IF r.tag = "Error" THEN q(i) ELSE r)

alt3(p(_), q(_), s(_), i) ==
    Bind(p(i), LAMBDA r : IF r.tag = "Error" THEN alt2(q, s, i) ELSE r)

alt5(p1(_), p2(_), p3(_), p4(_), p5(_), i) ==
    Bind(alt2(p1, p2, i), LAMBDA r : IF r.tag = "Error" THEN alt3(p3, p4, p5, i) ELSE r)

\* one more parser after a sequence that produced the values a.val
then(a, q(_)) ==
    IF ~IsOk(a) THEN a
    ELSE Bind(q(a.rest), LAMBDA b : IF ~IsOk(b) THEN b ELSE Ok(b.rest, Append(a.val, b.val)))

\* sequence::pair / tuple: the first parser that fails ends the sequence
pair(p(_), q(_), i) ==
    Bind(p(i), LAMBDA a : IF ~IsOk(a) THEN a
                          ELSE Bind(q(a.rest),
                                    LAMBDA b : IF ~IsOk(b) THEN b
                                               ELSE Ok(b.rest, <<a.val, b.val>>)))

tuple3(p(_), q(_), s(_), i) == Bind(pair(p, q, i), LAMBDA a : then(a, s))

tuple4(p(_), q(_), s(_), t(_), i) == Bind(tuple3(p, q, s, i), LAMBDA a : then(a, t))

tuple5(p(_), q(_), s(_), t(_), u(_), i) == Bind(tuple4(p, q, s, t, i), LAMBDA a : then(a, u))

tuple6(p(_), q(_), s(_), t(_), u(_), w(_), i) ==
    Bind(tuple5(p, q, s, t, u, i), LAMBDA a : then(a, w))

\* sequence::separated_pair: the separator's value is dropped
separated_pair(p(_), sep(_), q(_), i) ==
    Bind(tuple3(p, sep, q, i),
         LAMBDA r : IF IsOk(r) THEN Ok(r.rest, <<r.val[1], r.val[3]>>) ELSE r)

\* sequence::preceded
preceded(p(_), q(_), i) ==
    Bind(pair(p, q, i), LAMBDA r : IF IsOk(r) THEN Ok(r.rest, r.val[2]) ELSE r)

(***************************************************************************)
(* parse/mod.rs                                                             *)
(***************************************************************************)
RECURSIVE buf_to_int_from(_, _, _)
buf_to_int_from(buf, k, sum) ==
    IF k > Len(buf) THEN sum
    ELSE buf_to_int_from(buf, k + 1, sum * 10 + (buf[k] - CH_0))

\* the widest field is four digits, so no target type (u8, u16) overflows
buf_to_int(buf) == buf_to_int_from(buf, 1, 0)

sign_minus(i) == map(LAMBDA j : one_of_streaming(SIGN_MINUS_BYTES, j), LAMBDA c : -1, i)

sign_plus(i) == map(LAMBDA j : char_streaming(CH_PLUS, j), LAMBDA c : 1, i)

sign(i) == alt2(sign_minus, sign_plus, i)

(***************************************************************************)
(* parse/date.rs                                                            *)
(***************************************************************************)
positive_century(i) == map(LAMBDA j : take_while_m_n(2, 2, j), buf_to_int, i)

opt_sign(i) == opt(sign, i)

century(i) ==
    map(LAMBDA j : pair(opt_sign, positive_century, j),
        LAMBDA v : unwrap_or(v[1], 1) * v[2], i)

positive_year(i) == map(LAMBDA j : take_while_m_n(4, 4, j), buf_to_int, i)

\* the sign is parsed and dropped
year_unsigned(i) ==
    map(LAMBDA j : pair(opt_sign, positive_year, j), LAMBDA v : v[2], i)

year(i) ==
    map(LAMBDA j : pair(opt_sign, positive_year, j),
        LAMBDA v : unwrap_or(v[1], 1) * v[2], i)

\* one digit is enough
month_one_or_two(i) == map(LAMBDA j : take_while_m_n(1, 2, j), buf_to_int, i)

month(i) == map(LAMBDA j : take_while_m_n(2, 2, j), buf_to_int, i)

day(i) == map(LAMBDA j : take_while_m_n(2, 2, j), buf_to_int, i)

year_week(i) == map(LAMBDA j : take_while_m_n(2, 2, j), buf_to_int, i)

\* the day number wraps at 366
year_day_wrapped(i) ==
    map(LAMBDA j : take_while_m_n(3, 3, j), LAMBDA b : buf_to_int(b) % 366, i)

year_day(i) == map(LAMBDA j : take_while_m_n(3, 3, j), buf_to_int, i)

week_day(i) == map(LAMBDA j : take_while_m_n(1, 1, j), buf_to_int, i)

\* cond(extended, char(c))
cond_char(extended, c, i) == cond(extended, LAMBDA j : char(c, j), i)

char_W(i) == char(CH_W, i)

YmdDate(y, m, d) == [year |-> y, month |-> m, day |-> d]
WdDate(y, w, d) == [year |-> y, week |-> w, day |-> d]
ODate(y, d) == [year |-> y, day |-> d]
WDate(y, w) == [year |-> y, week |-> w]
YmDate(y, m) == [year |-> y, month |-> m]
YDate(y) == [year |-> y]
CDate(c) == [century |-> c]

\* enum Date { YMD, WD, O } and enum ApproxDate { YMD, YM, Y, C, WD, W, O }
Date(variant, v) == [ty |-> "Date", variant |-> variant, v |-> v]
ApproxDate(variant, v) == [ty |-> "ApproxDate", variant |-> variant, v |-> v]

\* impl From<Date> for ApproxDate: each variant goes to the variant of its name
ApproxDate_from_Date(d) == ApproxDate(d.variant, d.v)

\* Gregorian leap year: divisible by 4, not by 100 unless by 400
is_leap_year(y) == y % 4 = 0 /\ (y % 100 # 0 \/ y % 400 = 0)

days_in_year(y) == IF is_leap_year(y) THEN 366 ELSE 365

\* Valid for ODate: the day is within the day count of the year
ODate_is_valid(d) == d.day >= 1 /\ d.day <= days_in_year(d.year)

date_ymd_format(i, extended) ==
    map(LAMBDA j : tuple5(year,
                          LAMBDA k : cond_char(extended, CH_MINUS, k),
                          month,
                          LAMBDA k : cond_char(extended, CH_MINUS, k),
                          day, j),
        LAMBDA v : YmdDate(v[1], v[3], v[5]), i)

\* the basic form parsed with the separators of the extended form
date_ymd_basic_hyphenated(i) == date_ymd_format(i, TRUE)

date_ymd_basic(i) == date_ymd_format(i, FALSE)

date_ymd_extended(i) == date_ymd_format(i, TRUE)

date_ymd(i) == alt2(date_ymd_extended, date_ymd_basic, i)

date_wd_format(i, extended) ==
    map(LAMBDA j : tuple6(year,
                          LAMBDA k : cond_char(extended, CH_MINUS, k),
                          char_W,
                          year_week,
                          LAMBDA k : cond_char(extended, CH_MINUS, k),
                          week_day, j),
        LAMBDA v : WdDate(v[1], v[4], v[6]), i)

date_wd_basic(i) == date_wd_format(i, FALSE)

date_wd_extended(i) == date_wd_format(i, TRUE)

date_wd(i) == alt2(date_wd_extended, date_wd_basic, i)

date_o_format(i, extended) ==
    map(LAMBDA j : separated_pair(year,
                                  LAMBDA k : cond_char(extended, CH_MINUS, k),
                                  year_day, j),
        LAMBDA v : ODate(v[1], v[2]), i)

date_o_basic(i) == date_o_format(i, FALSE)

date_o_extended(i) == date_o_format(i, TRUE)

date_o(i) == alt2(date_o_extended, date_o_basic, i)

\* the ordinal form is tried before year-month-day
date_ordinal_before_ymd(i) ==
    alt3(LAMBDA j : complete(LAMBDA k : map(date_wd, LAMBDA v : Date("WD", v), k), j),
         LAMBDA j : complete(LAMBDA k : map(date_o, LAMBDA v : Date("O", v), k), j),
         LAMBDA j : complete(LAMBDA k : map(date_ymd, LAMBDA v : Date("YMD", v), k), j),
         i)

date(i) ==
    alt3(LAMBDA j : complete(LAMBDA k : map(date_wd, LAMBDA v : Date("WD", v), k), j),
         LAMBDA j : complete(LAMBDA k : map(date_ymd, LAMBDA v : Date("YMD", v), k), j),
         LAMBDA j : complete(LAMBDA k : map(date_o, LAMBDA v : Date("O", v), k), j),
         i)

date_w_format(i, extended) ==
    map(LAMBDA j : tuple4(year,
                          LAMBDA k : cond_char(extended, CH_MINUS, k),
                          char_W,
                          year_week, j),
        LAMBDA v : WDate(v[1], v[4]), i)

date_w_basic(i) == date_w_format(i, FALSE)

date_w_extended(i) == date_w_format(i, TRUE)

date_w(i) == alt2(date_w_extended, date_w_basic, i)

date_ym_format(i, extended) ==
    map(LAMBDA j : separated_pair(year,
                                  LAMBDA k : cond_char(extended, CH_MINUS, k),
                                  month, j),
        LAMBDA v : YmDate(v[1], v[2]), i)

date_ym_basic(i) == date_ym_format(i, FALSE)

date_ym_extended(i) == date_ym_format(i, TRUE)

date_ym(i) == alt2(date_ym_extended, date_ym_basic, i)

date_y(i) == map(year, YDate, i)

date_c(i) == map(century, CDate, i)

\* the coarser forms are tried first
date_approx_coarse_first(i) ==
    alt5(LAMBDA j : map(date_c, LAMBDA v : ApproxDate("C", v), j),
         LAMBDA j : map(date_y, LAMBDA v : ApproxDate("Y", v), j),
         LAMBDA j : map(date_ym, LAMBDA v : ApproxDate("YM", v), j),
         LAMBDA j : map(date_w, LAMBDA v : ApproxDate("W", v), j),
         LAMBDA j : map(date, ApproxDate_from_Date, j),
         i)

date_approx(i) ==
    alt5(LAMBDA j : map(date, ApproxDate_from_Date, j),
         LAMBDA j : map(date_w, LAMBDA v : ApproxDate("W", v), j),
         LAMBDA j : map(date_ym, LAMBDA v : ApproxDate("YM", v), j),
         LAMBDA j : map(date_y, LAMBDA v : ApproxDate("Y", v), j),
         LAMBDA j : map(date_c, LAMBDA v : ApproxDate("C", v), j),
         i)

(***************************************************************************)
(* f32 values.  A fraction is kept as the exact rational the decimal text  *)
(* denotes, in lowest terms; texts of at most MaxFracDigits digits denote   *)
(* distinct f32 values exactly when they denote distinct rationals.         *)
(***************************************************************************)
RECURSIVE GCD(_, _)
GCD(a, b) == IF b = 0 THEN a ELSE GCD(b, a % b)

Abs(x) == IF x < 0 THEN -x ELSE x

Rat(n, d) ==
    Bind(GCD(Abs(n), d), LAMBDA g : [num |-> n \div g, den |-> d \div g])

RatZero == Rat(0, 1)

RECURSIVE Pow10(_)
Pow10(k) == IF k = 0 THEN 1 ELSE 10 * Pow10(k - 1)

char_sign(i) == alt2(LAMBDA j : char(CH_PLUS, j), LAMBDA j : char(CH_MINUS, j), i)

char_e(i) == alt2(LAMBDA j : char(CH_e, j), LAMBDA j : char(CH_E, j), i)

\* number::complete::recognize_float: the slice that spells a float
recognize_float(i) ==
    Bind(tuple3(LAMBDA j : opt(char_sign, j),
                LAMBDA j : alt2(LAMBDA k : pair(digit1,
                                    LAMBDA l : opt(LAMBDA m : pair(LAMBDA n : char(CH_DOT, n),
                                                                   LAMBDA n : opt(digit1, n), m), l), k),
                                LAMBDA k : pair(LAMBDA n : char(CH_DOT, n), digit1, k), j),
                LAMBDA j : opt(LAMBDA k : tuple3(char_e,
                                                 LAMBDA l : opt(char_sign, l),
                                                 LAMBDA l : cut(digit1, l), k), j),
                i),
         LAMBDA r : IF IsOk(r) THEN Ok(r.rest, Take(i, Len(i) - Len(r.rest))) ELSE r)

\* the fields of a recognized float: sign, integer digits, fraction digits
\* and exponent
float_parts(s) ==
    tuple4(LAMBDA j : opt(char_sign, j),
           LAMBDA j : opt(digit1, j),
           LAMBDA j : preceded(LAMBDA k : opt(LAMBDA l : char(CH_DOT, l), k),
                               LAMBDA k : opt(digit1, k), j),
           LAMBDA j : opt(LAMBDA k : tuple3(char_e, LAMBDA l : opt(char_sign, l), digit1, k), j),
           s)

\* the number mant * 10^sc
Scaled(mant, sc) == IF sc >= 0 THEN Rat(mant * Pow10(sc), 1) ELSE Rat(mant, Pow10(-sc))

\* number::complete::float on a recognized slice: the number its text denotes
float(s) ==
    Bind(float_parts(s),
         LAMBDA r :
             Bind([neg |-> r.val[1].some /\ r.val[1].v = CH_MINUS,
                   idig |-> unwrap_or(r.val[2], <<>>),
                   fdig |-> unwrap_or(r.val[3], <<>>),
                   e |-> IF r.val[4].some
                         THEN (IF r.val[4].v[2].some /\ r.val[4].v[2].v = CH_MINUS THEN -1 ELSE 1)
                              * buf_to_int(r.val[4].v[3])
                         ELSE 0],
                  LAMBDA f :
                      IF Len(f.idig) + Len(f.fdig) = 0 THEN Error("Float")
                      ELSE Ok(r.rest,
                              Scaled((IF f.neg THEN -1 ELSE 1) * buf_to_int(f.idig \o f.fdig),
                                     f.e - Len(f.fdig)))))

\* combinator::map_parser(recognize_float, float)
recognized_float(i) ==
    Bind(recognize_float(i),
         LAMBDA r : IF ~IsOk(r) THEN r
                    ELSE Bind(float(r.val), LAMBDA f : IF IsOk(f) THEN Ok(r.rest, f.val) ELSE f))

frac32(i) ==
    preceded(LAMBDA j : peek(LAMBDA k : char_streaming(CH_DOT, k), j), recognized_float, i)

(***************************************************************************)
(* time.rs: the time types                                                  *)
(***************************************************************************)
HmsTime(h, m, s) == [hour |-> h, minute |-> m, second |-> s]
HmTime(h, m) == [hour |-> h, minute |-> m]
HTime(h) == [hour |-> h]
LocalTime(naive, fraction) == [naive |-> naive, fraction |-> fraction]
GlobalTime(local, tz) == [local |-> local, timezone |-> tz]
AnyTime(variant, v) == [ty |-> "AnyTime", variant |-> variant, v |-> v]
ApproxNaiveTime(variant, v) == [ty |-> "ApproxNaiveTime", variant |-> variant, v |-> v]
ApproxLocalTime(variant, v) == [ty |-> "ApproxLocalTime", variant |-> variant, v |-> v]
ApproxGlobalTime(variant, v) == [ty |-> "ApproxGlobalTime", variant |-> variant, v |-> v]
ApproxAnyTime(variant, v) == [ty |-> "ApproxAnyTime", variant |-> variant, v |-> v]

(***************************************************************************)
(* parse/time.rs                                                            *)
(***************************************************************************)
hour(i) == map(LAMBDA j : take_while_m_n(2, 2, j), buf_to_int, i)

minute(i) == map(LAMBDA j : take_while_m_n(2, 2, j), buf_to_int, i)

second(i) == map(LAMBDA j : take_while_m_n(2, 2, j), buf_to_int, i)

time_hms_format(i, extended) ==
    map(LAMBDA j : tuple5(hour,
                          LAMBDA k : cond_char(extended, CH_COLON, k),
                          minute,
                          LAMBDA k : cond_char(extended, CH_COLON, k),
                          second, j),
        LAMBDA v : HmsTime(v[1], v[3], v[5]), i)

time_hms_basic(i) == time_hms_format(i, FALSE)

time_hms_extended(i) == time_hms_format(i, TRUE)

time_hms(i) == alt2(time_hms_extended, time_hms_basic, i)

time_hm_format(i, extended) ==
    map(LAMBDA j : separated_pair(hour,
                                  LAMBDA k : cond_char(extended, CH_COLON, k),
                                  minute, j),
        LAMBDA v : HmTime(v[1], v[2]), i)

time_hm_basic(i) == time_hm_format(i, FALSE)

time_hm_extended(i) == time_hm_format(i, TRUE)

time_hm(i) == alt2(time_hm_extended, time_hm_basic, i)

time_h(i) == map(hour, HTime, i)

time_naive_approx(i) ==
    alt3(LAMBDA j : complete(LAMBDA k : map(time_hms, LAMBDA v : ApproxNaiveTime("HMS", v), k), j),
         LAMBDA j : complete(LAMBDA k : map(time_hm, LAMBDA v : ApproxNaiveTime("HM", v), k), j),
         LAMBDA j : complete(LAMBDA k : map(time_h, LAMBDA v : ApproxNaiveTime("H", v), k), j),
         i)

\* opt(complete(frac32))
opt_frac32(i) == opt(LAMBDA j : complete(frac32, j), i)

time_local_approx(i) ==
    map(LAMBDA j : pair(time_naive_approx, opt_frac32, j),
        LAMBDA v : ApproxLocalTime(v[1].variant,
                                   LocalTime(v[1].v, unwrap_or(v[2], RatZero))), i)

timezone_utc(i) == map(LAMBDA j : char(CH_Z, j), LAMBDA c : 0, i)

\* the sign is applied to the hours only
timezone_fixed_sign_on_hours(i) ==
    map(LAMBDA j : tuple3(sign,
                          hour,
                          LAMBDA k : opt(LAMBDA l : complete(
                                             LAMBDA m : preceded(
                                                 LAMBDA n : opt(LAMBDA o : char(CH_COLON, o), n),
                                                 minute, m), l), k), j),
        LAMBDA v : v[1] * v[2] * 60 + unwrap_or(v[3], 0), i)

timezone_fixed(i) ==
    map(LAMBDA j : tuple3(sign,
                          hour,
                          LAMBDA k : opt(LAMBDA l : complete(
                                             LAMBDA m : preceded(
                                                 LAMBDA n : opt(LAMBDA o : char(CH_COLON, o), n),
                                                 minute, m), l), k), j),
        LAMBDA v : v[1] * (v[2] * 60 + unwrap_or(v[3], 0)), i)

timezone(i) == alt2(timezone_utc, timezone_fixed, i)

time_global_approx(i) ==
    map(LAMBDA j : pair(time_local_approx, timezone, j),
        LAMBDA v : ApproxGlobalTime(v[1].variant, GlobalTime(v[1].v, v[2])), i)

\* macro time_local_accuracy!
time_local_accuracy(naive_submac(_), i) ==
    map(LAMBDA j : tuple3(LAMBDA k : opt(LAMBDA l : char(CH_T, l), k),
                          naive_submac,
                          opt_frac32, j),
        LAMBDA v : LocalTime(v[2], unwrap_or(v[3], RatZero)), i)

time_local_hms(i) == time_local_accuracy(time_hms, i)
time_local_hm(i) == time_local_accuracy(time_hm, i)
time_local_h(i) == time_local_accuracy(time_h, i)

\* macro time_global_accuracy!
time_global_accuracy(local_submac(_), i) ==
    map(LAMBDA j : pair(local_submac, LAMBDA k : complete(timezone, k), j),
        LAMBDA v : GlobalTime(v[1], v[2]), i)

time_global_hms(i) == time_global_accuracy(time_local_hms, i)
time_global_hm(i) == time_global_accuracy(time_local_hm, i)
time_global_h(i) == time_global_accuracy(time_local_h, i)

\* the local form is tried before the global one
time_any_h_local_first(i) ==
    alt2(LAMBDA j : complete(LAMBDA k : map(time_local_h, LAMBDA v : AnyTime("Local", v), k), j),
         LAMBDA j : complete(LAMBDA k : map(time_global_h, LAMBDA v : AnyTime("Global", v), k), j),
         i)

\* macro time_any_accuracy!
time_any_accuracy(local_submac(_), global_submac(_), i) ==
    alt2(LAMBDA j : complete(LAMBDA k : map(global_submac, LAMBDA v : AnyTime("Global", v), k), j),
         LAMBDA j : complete(LAMBDA k : map(local_submac, LAMBDA v : AnyTime("Local", v), k), j),
         i)

time_any_hms(i) == time_any_accuracy(time_local_hms, time_global_hms, i)
time_any_hm(i) == time_any_accuracy(time_local_hm, time_global_hm, i)
time_any_h(i) == time_any_accuracy(time_local_h, time_global_h, i)

time_any_approx(i) ==
    alt3(LAMBDA j : map(time_any_hms, LAMBDA v : ApproxAnyTime("HMS", v), j),
         LAMBDA j : map(time_any_hm, LAMBDA v : ApproxAnyTime("HM", v), j),
         LAMBDA j : map(time_any_h, LAMBDA v : ApproxAnyTime("H", v), j),
         i)

(***************************************************************************)
(* parse/datetime.rs                                                        *)
(***************************************************************************)
DateTime(d, t) == [date |-> d, time |-> t]
PartialDateTime(variant, v) == [ty |-> "PartialDateTime", variant |-> variant, v |-> v]

char_T(i) == char(CH_T, i)

\* peek(not(char('T')))
\* no lookahead after the separator
peek_not_T_absent(i) == Ok(i, <<>>)

peek_not_T(i) == peek(LAMBDA j : not(char_T, j), i)

\* macro datetime!
datetime(date_parser(_), time_parser(_), i) ==
    map(LAMBDA j : tuple4(date_parser, char_T, peek_not_T, time_parser, j),
        LAMBDA v : DateTime(v[1], v[4]), i)

datetime_global_hms(i) == datetime(date, time_global_hms, i)
datetime_global_hm(i) == datetime(date, time_global_hm, i)
datetime_global_h(i) == datetime(date, time_global_h, i)
datetime_local_hms(i) == datetime(date, time_local_hms, i)
datetime_local_hm(i) == datetime(date, time_local_hm, i)
datetime_local_h(i) == datetime(date, time_local_h, i)
datetime_any_hms(i) == datetime(date, time_any_hms, i)
datetime_any_hm(i) == datetime(date, time_any_hm, i)
datetime_any_h(i) == datetime(date, time_any_h, i)
datetime_global_approx(i) == datetime(date, time_global_approx, i)
datetime_local_approx(i) == datetime(date, time_local_approx, i)
datetime_any_approx(i) == datetime(date, time_any_approx, i)
datetime_approx_global_hms(i) == datetime(date_approx, time_global_hms, i)
datetime_approx_global_hm(i) == datetime(date_approx, time_global_hm, i)
datetime_approx_global_h(i) == datetime(date_approx, time_global_h, i)
datetime_approx_local_hms(i) == datetime(date_approx, time_local_hms, i)
datetime_approx_local_hm(i) == datetime(date_approx, time_local_hm, i)
datetime_approx_local_h(i) == datetime(date_approx, time_local_h, i)
datetime_approx_any_hms(i) == datetime(date_approx, time_any_hms, i)
datetime_approx_any_hm(i) == datetime(date_approx, time_any_hm, i)
datetime_approx_any_h(i) == datetime(date_approx, time_any_h, i)
datetime_approx_global_approx(i) == datetime(date_approx, time_global_approx, i)
datetime_approx_local_approx(i) == datetime(date_approx, time_local_approx, i)
datetime_approx_any_approx(i) == datetime(date_approx, time_any_approx, i)

\* combinator::map_res: an Err of the closure becomes Err::Error(MapRes)
map_res(p(_), f(_), i) ==
    Bind(p(i),
         LAMBDA r : IF ~IsOk(r) THEN r
                    ELSE Bind(f(r.val), LAMBDA o : IF o.ok THEN Ok(r.rest, o.v) ELSE Error("MapRes")))

\* the date grammar is attempted whatever colons the input holds
partial_date_cond_ignoring_colon(i) ==
    \/ (Len(i) # 0 /\ find_token(Drop(i, 1), CH_T))
    \/ (Len(i) = 0 \/ i[1] # CH_T)

\* a 'T' after the first byte does not let the date grammar be attempted
partial_date_cond_without_T_rule(i) ==
    (Len(i) = 0 \/ i[1] # CH_T) /\ ~find_token(i, CH_COLON)

\* without a 'T' after the first byte the date grammar is not attempted
partial_date_cond_T_rule_only(i) == Len(i) # 0 /\ find_token(Drop(i, 1), CH_T)

\* the condition under which the date grammar is attempted
partial_date_cond(i) ==
    \/ (Len(i) # 0 /\ find_token(Drop(i, 1), CH_T))
    \/ ((Len(i) = 0 \/ i[1] # CH_T) /\ ~find_token(i, CH_COLON))

\* the closure of map_res: the match on (d.flatten(), time)
partial_match(v) ==
    Bind([d |-> flatten(v[1]), time |-> v[4]],
         LAMBDA m :
             IF ~m.d.some /\ ~m.time.some THEN [ok |-> FALSE, e |-> Incomplete]
             ELSE IF m.d.some /\ ~m.time.some
                  THEN [ok |-> TRUE, v |-> PartialDateTime("Date", m.d.v)]
             ELSE IF ~m.d.some /\ m.time.some
                  THEN [ok |-> TRUE, v |-> PartialDateTime("Time", m.time.v)]
             ELSE [ok |-> TRUE, v |-> PartialDateTime("DateTime", DateTime(m.d.v, m.time.v))])

partial_datetime_approx_any_approx(i) ==
    map_res(LAMBDA j : tuple4(
                LAMBDA k : cond(partial_date_cond(i), LAMBDA l : opt(date_approx, l), k),
                LAMBDA k : opt(LAMBDA l : complete(char_T, l), k),
                LAMBDA k : opt(LAMBDA l : complete(peek_not_T, l), k),
                LAMBDA k : opt(time_any_approx, k), j),
            partial_match, i)

(***************************************************************************)
(* time.rs: validity                                                        *)
(***************************************************************************)
HTime_is_valid(t) == t.hour <= 24

HmTime_is_valid(t) == HTime_is_valid(HTime(t.hour)) /\ t.minute <= 59

\* no leap second
HmsTime_is_valid_no_leap(t) == HmTime_is_valid(HmTime(t.hour, t.minute)) /\ t.second <= 59

HmsTime_is_valid(t) == HmTime_is_valid(HmTime(t.hour, t.minute)) /\ t.second <= 60

\* the Valid impl of the naive time a value carries
NaiveTime_is_valid(t) ==
    IF "second" \in DOMAIN t THEN HmsTime_is_valid(t)
    ELSE IF "minute" \in DOMAIN t THEN HmTime_is_valid(t)
    ELSE HTime_is_valid(t)

\* the naive time is not consulted
LocalTime_is_valid_fraction_only(t) ==
    t.fraction.num >= 0 /\ t.fraction.num < t.fraction.den

\* fraction >= 0. && fraction < 1.
LocalTime_is_valid(t) ==
    NaiveTime_is_valid(t.naive) /\ t.fraction.num >= 0 /\ t.fraction.num < t.fraction.den

\* the bounds of the offset are included
GlobalTime_is_valid_closed(t) ==
    LocalTime_is_valid(t.local) /\ t.timezone >= -24 * 60 /\ t.timezone <= 24 * 60

GlobalTime_is_valid(t) ==
    LocalTime_is_valid(t.local) /\ t.timezone > -24 * 60 /\ t.timezone < 24 * 60

AnyTime_is_valid(t) ==
    IF t.variant = "Global" THEN GlobalTime_is_valid(t.v) ELSE LocalTime_is_valid(t.v)

ApproxLocalTime_is_valid(t) == LocalTime_is_valid(t.v)

ApproxGlobalTime_is_valid(t) == GlobalTime_is_valid(t.v)

ApproxAnyTime_is_valid(t) == AnyTime_is_valid(t.v)

(***************************************************************************)
(* time.rs: conversions between the precisions of LocalTime.  An f32 is    *)
(* modelled by the exact rational it approximates; a u8 keeps its width.   *)
(***************************************************************************)
RatOfInt(k) == Rat(k, 1)

RatAdd(a, b) == Rat(a.num * b.den + b.num * a.den, a.den * b.den)

RatMulInt(a, k) == Bind(GCD(k, a.den), LAMBDA g : Rat(a.num * (k \div g), a.den \div g))

RatDivInt(a, k) ==
    Bind(GCD(Abs(a.num), k), LAMBDA g : Rat(a.num \div g, a.den * (k \div g)))

\* the integer part, towards zero
Trunc(a) == IF a.num >= 0 THEN a.num \div a.den ELSE -((-a.num) \div a.den)

\* f32 as u8: truncates towards zero and saturates at 0 and 255
as_u8(a) == Bind(Trunc(a), LAMBDA n : IF n < 0 THEN 0 ELSE IF n > 255 THEN 255 ELSE n)

\* f32 % 1.: the remainder has the sign of the dividend
rem_1(a) == RatAdd(a, RatOfInt(-Trunc(a)))

\* LocalTime<HmTime>::second
LocalTime_HmTime_second(t) == as_u8(RatMulInt(t.fraction, 60))

\* LocalTime<HTime>::minute
LocalTime_HTime_minute(t) == as_u8(RatMulInt(t.fraction, 60))

\* LocalTime<HTime>::second
LocalTime_HTime_second(t) == as_u8(RatMulInt(t.fraction, 3600)) % 60

\* 1_000_000_000, the nanoseconds of a second
Giga == 1000000000

\* a u32 written as g * 10^9 + r with r < 10^9
U32(g, r) == [g |-> g, r |-> r]

\* u32::MAX = 4_294_967_295
U32_MAX == U32(4, 294967295)

\* the first n decimal digits of k / den, for 0 <= k < den
RECURSIVE DecimalDigits(_, _, _, _)
DecimalDigits(k, den, n, acc) ==
    IF n = 0 THEN acc
    ELSE DecimalDigits((k * 10) % den, den, n - 1, acc * 10 + (k * 10) \div den)

\* (f32 * 10^9) as u32: truncates towards zero and saturates at 0 and u32::MAX
giga_as_u32(a) ==
    IF a.num < 0 THEN U32(0, 0)
    ELSE Bind(U32(a.num \div a.den, DecimalDigits(a.num % a.den, a.den, 9, 0)),
              LAMBDA v : IF v.g > U32_MAX.g \/ (v.g = U32_MAX.g /\ v.r > U32_MAX.r)
                         THEN U32_MAX ELSE v)

\* LocalTime<HmsTime>::nanosecond
LocalTime_HmsTime_nanosecond(t) == giga_as_u32(t.fraction)

\* LocalTime<HmTime>::nanosecond: (fraction * 60_000_000_000.) as u32 % 1_000_000_000
LocalTime_HmTime_nanosecond(t) == giga_as_u32(RatMulInt(t.fraction, 60)).r

\* LocalTime<HTime>::nanosecond
LocalTime_HTime_nanosecond(t) == giga_as_u32(RatMulInt(t.fraction, 3600)).r

\* the second is dropped, not folded into the fraction
From_LocalTime_HmsTime_for_LocalTime_HmTime_dropping(t) ==
    LocalTime(HmTime(t.naive.hour, t.naive.minute), RatDivInt(t.fraction, 60))

From_LocalTime_HmsTime_for_LocalTime_HmTime(t) ==
    LocalTime(HmTime(t.naive.hour, t.naive.minute),
              RatDivInt(RatAdd(RatOfInt(t.naive.second), t.fraction), 60))

From_LocalTime_HmsTime_for_LocalTime_HTime(t) ==
    LocalTime(HTime(t.naive.hour),
              RatAdd(RatDivInt(RatOfInt(t.naive.minute), 60),
                     RatDivInt(RatAdd(RatOfInt(t.naive.second), t.fraction), 3600)))

From_LocalTime_HmTime_for_LocalTime_HTime(t) ==
    LocalTime(HTime(t.naive.hour),
              RatDivInt(RatAdd(RatOfInt(t.naive.minute), t.fraction), 60))

\* the second is not recovered from the fraction
From_LocalTime_HmTime_for_LocalTime_HmsTime_zero_second(t) ==
    LocalTime(HmsTime(t.naive.hour, t.naive.minute, 0), rem_1(RatMulInt(t.fraction, 60)))

From_LocalTime_HmTime_for_LocalTime_HmsTime(t) ==
    LocalTime(HmsTime(t.naive.hour, t.naive.minute, LocalTime_HmTime_second(t)),
              rem_1(RatMulInt(t.fraction, 60)))

From_LocalTime_HTime_for_LocalTime_HmsTime(t) ==
    LocalTime(HmsTime(t.naive.hour, LocalTime_HTime_minute(t), LocalTime_HTime_second(t)),
              rem_1(RatMulInt(t.fraction, 3600)))

\* From impls between the precisions of GlobalTime: the local part is
\* converted, the timezone is kept
\* the timezone is reset to UTC
From_GlobalTime_HmsTime_for_GlobalTime_HmTime_utc(t) ==
    GlobalTime(From_LocalTime_HmsTime_for_LocalTime_HmTime(t.local), 0)

From_GlobalTime_HmsTime_for_GlobalTime_HmTime(t) ==
    GlobalTime(From_LocalTime_HmsTime_for_LocalTime_HmTime(t.local), t.timezone)

From_GlobalTime_HmsTime_for_GlobalTime_HTime(t) ==
    GlobalTime(From_LocalTime_HmsTime_for_LocalTime_HTime(t.local), t.timezone)

From_GlobalTime_HmTime_for_GlobalTime_HTime(t) ==
    GlobalTime(From_LocalTime_HmTime_for_LocalTime_HTime(t.local), t.timezone)

From_GlobalTime_HmTime_for_GlobalTime_HmsTime(t) ==
    GlobalTime(From_LocalTime_HmTime_for_LocalTime_HmsTime(t.local), t.timezone)

From_GlobalTime_HTime_for_GlobalTime_HmsTime(t) ==
    GlobalTime(From_LocalTime_HTime_for_LocalTime_HmsTime(t.local), t.timezone)

\* From impls between the precisions of AnyTime: each variant is converted
\* to the variant of its name
From_AnyTime_HmsTime_for_AnyTime_HmTime(t) ==
    IF t.variant = "Global"
    THEN AnyTime("Global", From_GlobalTime_HmsTime_for_GlobalTime_HmTime(t.v))
    ELSE AnyTime("Local", From_LocalTime_HmsTime_for_LocalTime_HmTime(t.v))

From_AnyTime_HmsTime_for_AnyTime_HTime(t) ==
    IF t.variant = "Global"
    THEN AnyTime("Global", From_GlobalTime_HmsTime_for_GlobalTime_HTime(t.v))
    ELSE AnyTime("Local", From_LocalTime_HmsTime_for_LocalTime_HTime(t.v))

From_AnyTime_HmTime_for_AnyTime_HTime(t) ==
    IF t.variant = "Global"
    THEN AnyTime("Global", From_GlobalTime_HmTime_for_GlobalTime_HTime(t.v))
    ELSE AnyTime("Local", From_LocalTime_HmTime_for_LocalTime_HTime(t.v))

(***************************************************************************)
(* chrono.rs: the conversion to the calendar library.  The result is what  *)
(* the conversion hands to the library: the seconds east of UTC, the year,  *)
(* month and day, and the hour, minute, second and nanosecond.  An i16      *)
(* product that overflows panics in a build with overflow checks and wraps  *)
(* in a build without them.                                                 *)
(***************************************************************************)
I16_MAX == 32767

Panic(msg) == [tag |-> "Panic", msg |-> msg]
Value(v) == [tag |-> "Value", v |-> v]

\* the i16 of the same low 16 bits
wrap_i16(n) == ((n + I16_MAX + 1) % (2 * (I16_MAX + 1))) - (I16_MAX + 1)

\* a * b on i16: the outcomes the builds can produce
i16_mul(a, b) ==
    IF a * b >= -(I16_MAX + 1) /\ a * b <= I16_MAX
    THEN {Value(a * b)}
    ELSE {Panic("attempt to multiply with overflow"), Value(wrap_i16(a * b))}

\* From<Date> for YmdDate, for the YMD variant
YmdDate_from_Date(d) == d.v

\* From<DateTime<Date, GlobalTime>> for chrono::DateTime<FixedOffset>
From_DateTime_Date_GlobalTime_for_DateTime_FixedOffset(dt) ==
    {IF e.tag = "Panic" THEN e
     ELSE [tag |-> "Value",
           east |-> e.v,
           ymd |-> YmdDate_from_Date(dt.date),
           hms_nano |-> <<dt.time.local.naive.hour, dt.time.local.naive.minute,
                          dt.time.local.naive.second,
                          LocalTime_HmsTime_nanosecond(dt.time.local)>>] :
        e \in i16_mul(dt.time.timezone, 60)}

(***************************************************************************)
(* lib.rs: Error and macro impl_fromstr_parse!                              *)
(***************************************************************************)
ResOk(v) == [tag |-> "Ok", val |-> v]
ResErr(e) == [tag |-> "Err", err |-> e]

impl_fromstr_parse(func(_), is_valid(_), s) ==
    Bind(func(s),
         LAMBDA r : IF ~IsOk(r) THEN ResErr("InvalidFormat")
                    ELSE IF is_valid(r.val) THEN ResOk(r.val)
                    ELSE ResErr("InvalidDate"))

\* time.rs: the impl_fromstr_parse! invocations
from_str_GlobalTime_HmsTime(s) == impl_fromstr_parse(time_global_hms, GlobalTime_is_valid, s)
from_str_GlobalTime_HmTime(s) == impl_fromstr_parse(time_global_hm, GlobalTime_is_valid, s)
from_str_GlobalTime_HTime(s) == impl_fromstr_parse(time_global_h, GlobalTime_is_valid, s)
\* an unconsumed remainder is a format error
from_str_LocalTime_HmsTime_whole_input(s) ==
    Bind(time_local_hms(s),
         LAMBDA r : IF ~IsOk(r) \/ r.rest # <<>> THEN ResErr("InvalidFormat")
                    ELSE IF LocalTime_is_valid(r.val) THEN ResOk(r.val)
                    ELSE ResErr("InvalidDate"))

from_str_LocalTime_HmsTime(s) == impl_fromstr_parse(time_local_hms, LocalTime_is_valid, s)

\* the parsed value is returned without the validity check
from_str_LocalTime_HmTime_unchecked(s) ==
    Bind(time_local_hm(s), LAMBDA r : IF ~IsOk(r) THEN ResErr("InvalidFormat") ELSE ResOk(r.val))

from_str_LocalTime_HmTime(s) == impl_fromstr_parse(time_local_hm, LocalTime_is_valid, s)

from_str_LocalTime_HTime(s) == impl_fromstr_parse(time_local_h, LocalTime_is_valid, s)
from_str_AnyTime_HmsTime(s) == impl_fromstr_parse(time_any_hms, AnyTime_is_valid, s)
from_str_AnyTime_HmTime(s) == impl_fromstr_parse(time_any_hm, AnyTime_is_valid, s)
from_str_AnyTime_HTime(s) == impl_fromstr_parse(time_any_h, AnyTime_is_valid, s)
from_str_ApproxGlobalTime(s) == impl_fromstr_parse(time_global_approx, ApproxGlobalTime_is_valid, s)
from_str_ApproxLocalTime(s) == impl_fromstr_parse(time_local_approx, ApproxLocalTime_is_valid, s)
from_str_ApproxAnyTime(s) == impl_fromstr_parse(time_any_approx, ApproxAnyTime_is_valid, s)

(***************************************************************************)
(* Input texts.  Fields are rendered to ASCII digits of the field's width;  *)
(* a text is the concatenation of its fields and separators.                *)
(***************************************************************************)
MaxLen == 2
MaxTrail == 1

RECURSIVE Dig(_, _)
Dig(n, w) == IF w = 0 THEN <<>> ELSE Append(Dig(n \div 10, w - 1), CH_0 + (n % 10))

\* every byte string over the alphabet of length at most n
RECURSIVE Strings(_, _)
Strings(alphabet, n) ==
    IF n = 0 THEN {<<>>}
    ELSE Bind(Strings(alphabet, n - 1),
              LAMBDA shorter :
                  shorter \cup {Append(t, c) : t \in {u \in shorter : Len(u) = n - 1},
                                               c \in alphabet})

RECURSIVE Spaces(_)
Spaces(n) == IF n = 0 THEN <<>> ELSE Append(Spaces(n - 1), CH_SPACE)

Trails == {Spaces(n) : n \in 0..MaxTrail}

AsciiSigns == {"none", "plus", "minus"}
Signs == AsciiSigns \cup {"u2212", "u2010"}

SignTxt(sg) ==
    CASE sg = "none" -> <<>>
      [] sg = "plus" -> <<CH_PLUS>>
      [] sg = "minus" -> <<CH_MINUS>>
      [] sg = "u2212" -> U2212
      [] sg = "u2010" -> U2010

\* the factor a sign marker stands for
SignVal(sg) == IF sg \in {"none", "plus"} THEN 1 ELSE -1

Hy(ext) == IF ext THEN <<CH_MINUS>> ELSE <<>>
Co(ext) == IF ext THEN <<CH_COLON>> ELSE <<>>

YearVals == {0, 333, 2018, 9999}
MonthVals == {0, 6, 8, 13}
DayVals == {2, 11, 32}
WeekVals == {5, 53}
WeekDayVals == {0, 5}
OrdinalVals == {0, 5, 366, 367}
OrdinalYearVals == {2020, 2022}
CenturyVals == {0, 20, 99}

TxtC(sg, c) == SignTxt(sg) \o Dig(c, 2)
TxtY(sg, y) == SignTxt(sg) \o Dig(y, 4)
TxtYM(sg, y, m, ext) == TxtY(sg, y) \o Hy(ext) \o Dig(m, 2)
TxtYMD(sg, y, m, d, ext) == TxtYM(sg, y, m, ext) \o Hy(ext) \o Dig(d, 2)
TxtW(sg, y, w, ext) == TxtY(sg, y) \o Hy(ext) \o <<CH_W>> \o Dig(w, 2)
TxtWD(sg, y, w, d, ext) == TxtW(sg, y, w, ext) \o Hy(ext) \o Dig(d, 1)
TxtO(sg, y, d, ext) == TxtY(sg, y) \o Hy(ext) \o Dig(d, 3)

\* <<text, sign, fields, extended>> of every date text of the family
CCases == {<<TxtC(sg, c), sg, <<c>>, FALSE>> : sg \in Signs, c \in CenturyVals}
YCases == {<<TxtY(sg, y), sg, <<y>>, FALSE>> : sg \in Signs, y \in YearVals}
YMCases ==
    {<<TxtYM(sg, y, m, e), sg, <<y, m>>, e>> :
        sg \in Signs, y \in YearVals, m \in MonthVals, e \in BOOLEAN}
YMDCases ==
    {<<TxtYMD(sg, y, f[1], f[2], e), sg, <<y, f[1], f[2]>>, e>> :
        sg \in Signs, y \in YearVals, f \in MonthVals \X DayVals, e \in BOOLEAN}
WCases ==
    {<<TxtW(sg, y, w, e), sg, <<y, w>>, e>> :
        sg \in Signs, y \in YearVals, w \in WeekVals, e \in BOOLEAN}
WDCases ==
    {<<TxtWD(sg, y, f[1], f[2], e), sg, <<y, f[1], f[2]>>, e>> :
        sg \in Signs, y \in YearVals, f \in WeekVals \X WeekDayVals, e \in BOOLEAN}
OCases ==
    {<<TxtO(sg, y, d, e), sg, <<y, d>>, e>> :
        sg \in Signs, y \in YearVals \cup OrdinalYearVals, d \in OrdinalVals, e \in BOOLEAN}

DateCases == CCases \cup YCases \cup YMCases \cup YMDCases \cup WCases \cup WDCases \cup OCases

DateAlphabet == {CH_0, CH_0 + 1, CH_MINUS, CH_PLUS, CH_W, CH_T, CH_SPACE, 226, 136}

DateInputs ==
    {c[1] \o t : c \in DateCases, t \in Trails} \cup Strings(DateAlphabet, MaxLen)

HourVals == {12, 25}
MinuteVals == {30, 60}
SecondVals == {15, 61}

TxtH(h) == Dig(h, 2)
TxtHM(h, m, ext) == TxtH(h) \o Co(ext) \o Dig(m, 2)
TxtHMS(h, m, sc, ext) == TxtHM(h, m, ext) \o Co(ext) \o Dig(sc, 2)

\* <<text, naive time, extended>> of every naive time text of the family
HCases == {<<TxtH(h), HTime(h), FALSE>> : h \in HourVals}
HMCases == {<<TxtHM(h, m, e), HmTime(h, m), e>> : h \in HourVals, m \in MinuteVals, e \in BOOLEAN}
HMSCases ==
    {<<TxtHMS(h, f[1], f[2], e), HmsTime(h, f[1], f[2]), e>> :
        h \in HourVals, f \in MinuteVals \X SecondVals, e \in BOOLEAN}

NaiveCases == HCases \cup HMCases \cup HMSCases

\* <<text, fraction>>: no fraction, ".2" and ".5e1"
FracCases ==
    { <<<<>>, RatZero>>,
      <<<<CH_DOT, CH_0 + 2>>, Rat(2, 10)>>,
      <<<<CH_DOT, CH_0 + 5, CH_e, CH_0 + 1>>, Rat(5, 1)>> }

\* a fixed offset: sign, hh and an optional mm, with or without ':'
TxtZone(sg, hh, mm, colon) ==
    SignTxt(sg) \o Dig(hh, 2)
        \o (IF mm.some THEN Co(colon) \o Dig(mm.v, 2) ELSE <<>>)

ZoneVal(sg, hh, mm) == SignVal(sg) * (hh * 60 + (IF mm.some THEN mm.v ELSE 0))

ZoneFieldVals == {0, 1, 23, 24, 59, 99}

\* <<text, sign, hh, mm, colon>> of every fixed offset of the family
ZoneCases ==
    {<<TxtZone(sg, hh, f[1], f[2]), sg, hh, f[1], f[2]>> :
        sg \in {"plus", "minus"}, hh \in ZoneFieldVals,
        f \in ({None} \cup {Some(m) : m \in ZoneFieldVals}) \X BOOLEAN}

ZoneAlphabet == {CH_0, CH_0 + 1, CH_MINUS, CH_PLUS, CH_Z, CH_COLON, CH_SPACE}

ZoneInputs ==
    {c[1] \o t : c \in ZoneCases, t \in Trails}
        \cup {<<CH_Z>> \o t : t \in Trails}
        \cup Strings(ZoneAlphabet, MaxLen)

\* <<text, Some(offset) or None>>: the zone suffixes of the time texts
ZoneSuffixCases ==
    { <<<<>>, None>>,
      <<<<CH_Z>>, Some(0)>>,
      <<TxtZone("plus", 23, Some(59), TRUE), Some(1439)>>,
      <<TxtZone("plus", 23, Some(59), FALSE), Some(1439)>>,
      <<TxtZone("minus", 23, None, FALSE), Some(-1380)>>,
      <<TxtZone("plus", 24, Some(0), TRUE), Some(1440)>>,
      <<TxtZone("minus", 99, Some(99), FALSE), Some(-6039)>> }

TPrefixes == {<<>>, <<CH_T>>}

TimeAlphabet == {CH_0, CH_0 + 1, CH_T, CH_COLON, CH_DOT, CH_Z, CH_PLUS, CH_MINUS, CH_SPACE, CH_e}

TimeInputs ==
    {tp \o n[1] \o f[1] \o z[1] \o t :
        tp \in TPrefixes, n \in NaiveCases, f \in FracCases, z \in ZoneSuffixCases, t \in Trails}
        \cup Strings(TimeAlphabet, MaxLen)

(***************************************************************************)
(* Texts of the composition grammar: a date part, a separator and a time   *)
(* part, each possibly empty.                                               *)
(***************************************************************************)
DTForms == {"C", "Y", "YM", "YMD", "W", "WD", "O"}

\* a date part: its form, sign and whether it is written extended; form
\* "none" is the empty date part
DTDates ==
    {[form |-> f, sg |-> sg, ext |-> e] :
        f \in {"YM", "YMD", "W", "WD", "O"}, sg \in {"none", "minus"}, e \in BOOLEAN}
    \cup {[form |-> f, sg |-> sg, ext |-> FALSE] : f \in {"C", "Y"}, sg \in {"none", "minus"}}

NoDate == [form |-> "none", sg |-> "none", ext |-> FALSE]

DateTxt(d) ==
    CASE d.form = "none" -> <<>>
      [] d.form = "C" -> TxtC(d.sg, 20)
      [] d.form = "Y" -> TxtY(d.sg, 2018)
      [] d.form = "YM" -> TxtYM(d.sg, 2018, 8, d.ext)
      [] d.form = "YMD" -> TxtYMD(d.sg, 2018, 8, 2, d.ext)
      [] d.form = "W" -> TxtW(d.sg, 2018, 5, d.ext)
      [] d.form = "WD" -> TxtWD(d.sg, 2018, 5, 5, d.ext)
      [] d.form = "O" -> TxtO(d.sg, 2018, 5, d.ext)

\* the ApproxDate the date part denotes
DateVal(d) ==
    CASE d.form = "C" -> ApproxDate("C", CDate(SignVal(d.sg) * 20))
      [] d.form = "Y" -> ApproxDate("Y", YDate(SignVal(d.sg) * 2018))
      [] d.form = "YM" -> ApproxDate("YM", YmDate(SignVal(d.sg) * 2018, 8))
      [] d.form = "YMD" -> ApproxDate("YMD", YmdDate(SignVal(d.sg) * 2018, 8, 2))
      [] d.form = "W" -> ApproxDate("W", WDate(SignVal(d.sg) * 2018, 5))
      [] d.form = "WD" -> ApproxDate("WD", WdDate(SignVal(d.sg) * 2018, 5, 5))
      [] d.form = "O" -> ApproxDate("O", ODate(SignVal(d.sg) * 2018, 5))

DTFracCases == {c \in FracCases : c[2].num < c[2].den}

DTZoneCases == {c \in ZoneSuffixCases : ~c[2].some \/ (c[2].v >= 0 /\ c[2].v < 1440)}

\* a time part: precision, extended or basic, fraction and zone suffix;
\* precision "none" is the empty time part
DTTimes ==
    {[prec |-> q, ext |-> e, frac |-> f, zone |-> z] :
        q \in {"HM", "HMS"}, e \in BOOLEAN, f \in DTFracCases, z \in DTZoneCases}
    \cup {[prec |-> "H", ext |-> FALSE, frac |-> f, zone |-> z] :
              f \in DTFracCases, z \in DTZoneCases}

NoTime == [prec |-> "none", ext |-> FALSE, frac |-> <<<<>>, RatZero>>, zone |-> <<<<>>, None>>]

TimeTxt(t) ==
    (CASE t.prec = "none" -> <<>>
       [] t.prec = "H" -> TxtH(12)
       [] t.prec = "HM" -> TxtHM(12, 30, t.ext)
       [] t.prec = "HMS" -> TxtHMS(12, 30, 15, t.ext))
    \o t.frac[1] \o t.zone[1]

\* the ApproxAnyTime the time part denotes
TimeVal(t) ==
    Bind(LocalTime(CASE t.prec = "H" -> HTime(12)
                     [] t.prec = "HM" -> HmTime(12, 30)
                     [] t.prec = "HMS" -> HmsTime(12, 30, 15),
                   t.frac[2]),
         LAMBDA l : ApproxAnyTime(t.prec,
                                  IF t.zone[2].some
                                  THEN AnyTime("Global", GlobalTime(l, t.zone[2].v))
                                  ELSE AnyTime("Local", l)))

DTSeps == {<<>>, <<CH_T>>, <<CH_T, CH_T>>}

\* <<text, date part, separator, time part>>
DTCases ==
    {<<DateTxt(d) \o sp \o TimeTxt(t), d, sp, t>> :
        d \in DTDates \cup {NoDate}, sp \in DTSeps, t \in DTTimes \cup {NoTime}}

DTAlphabet == {CH_0, CH_0 + 1, CH_T, CH_COLON, CH_MINUS, CH_PLUS, CH_Z, CH_W, CH_DOT, CH_SPACE}

DTInputs == {c[1] : c \in DTCases} \cup Strings(DTAlphabet, MaxLen)

\* a &str holds valid UTF-8: ASCII, or the three-byte encodings the grammar names
RECURSIVE is_utf8(_)
is_utf8(b) ==
    IF Len(b) = 0 THEN TRUE
    ELSE IF b[1] < 128 THEN is_utf8(Drop(b, 1))
    ELSE /\ Len(b) >= 3
         /\ Take(b, 3) \in {U2212, U2010}
         /\ is_utf8(Drop(b, 3))

(***************************************************************************)
(* The state machine: a caller holds an input and applies one function to  *)
(* it.  op is the caller's position: "init" before the call, the name of   *)
(* the function after it; out is what the call returned.  The functions    *)
(* are pure, so a run is one call on one input, followed at most by a     *)
(* call of is_valid on the value it returned.                               *)
(***************************************************************************)
Call_sign ==
    /\ op = "init"
    /\ op' = "sign"
    /\ out' = sign(input)
    /\ UNCHANGED input

Call_positive_century ==
    /\ op = "init"
    /\ op' = "positive_century"
    /\ out' = positive_century(input)
    /\ UNCHANGED input

Call_century ==
    /\ op = "init"
    /\ op' = "century"
    /\ out' = century(input)
    /\ UNCHANGED input

Call_positive_year ==
    /\ op = "init"
    /\ op' = "positive_year"
    /\ out' = positive_year(input)
    /\ UNCHANGED input

Call_year ==
    /\ op = "init"
    /\ op' = "year"
    /\ out' = year(input)
    /\ UNCHANGED input

Call_month ==
    /\ op = "init"
    /\ op' = "month"
    /\ out' = month(input)
    /\ UNCHANGED input

Call_day ==
    /\ op = "init"
    /\ op' = "day"
    /\ out' = day(input)
    /\ UNCHANGED input

Call_year_week ==
    /\ op = "init"
    /\ op' = "year_week"
    /\ out' = year_week(input)
    /\ UNCHANGED input

Call_year_day ==
    /\ op = "init"
    /\ op' = "year_day"
    /\ out' = year_day(input)
    /\ UNCHANGED input

Call_week_day ==
    /\ op = "init"
    /\ op' = "week_day"
    /\ out' = week_day(input)
    /\ UNCHANGED input

Call_date_ymd ==
    /\ op = "init"
    /\ op' = "date_ymd"
    /\ out' = date_ymd(input)
    /\ UNCHANGED input

Call_date_wd ==
    /\ op = "init"
    /\ op' = "date_wd"
    /\ out' = date_wd(input)
    /\ UNCHANGED input

Call_date_o ==
    /\ op = "init"
    /\ op' = "date_o"
    /\ out' = date_o(input)
    /\ UNCHANGED input

\* date_o(..).unwrap().1.is_valid(): the validity of a parsed ordinal date
Call_ODate_is_valid ==
    /\ op = "date_o"
    /\ IsOk(out)
    /\ op' = "ODate_is_valid"
    /\ out' = [date |-> out.val, valid |-> ODate_is_valid(out.val)]
    /\ UNCHANGED input

Call_date ==
    /\ op = "init"
    /\ op' = "date"
    /\ out' = date(input)
    /\ UNCHANGED input

Call_date_w ==
    /\ op = "init"
    /\ op' = "date_w"
    /\ out' = date_w(input)
    /\ UNCHANGED input

Call_date_ym ==
    /\ op = "init"
    /\ op' = "date_ym"
    /\ out' = date_ym(input)
    /\ UNCHANGED input

Call_date_y ==
    /\ op = "init"
    /\ op' = "date_y"
    /\ out' = date_y(input)
    /\ UNCHANGED input

Call_date_c ==
    /\ op = "init"
    /\ op' = "date_c"
    /\ out' = date_c(input)
    /\ UNCHANGED input

Call_date_approx ==
    /\ op = "init"
    /\ op' = "date_approx"
    /\ out' = date_approx(input)
    /\ UNCHANGED input

Call_hour ==
    /\ op = "init"
    /\ op' = "hour"
    /\ out' = hour(input)
    /\ UNCHANGED input

Call_minute ==
    /\ op = "init"
    /\ op' = "minute"
    /\ out' = minute(input)
    /\ UNCHANGED input

Call_second ==
    /\ op = "init"
    /\ op' = "second"
    /\ out' = second(input)
    /\ UNCHANGED input

Call_time_hms ==
    /\ op = "init"
    /\ op' = "time_hms"
    /\ out' = time_hms(input)
    /\ UNCHANGED input

Call_time_hm ==
    /\ op = "init"
    /\ op' = "time_hm"
    /\ out' = time_hm(input)
    /\ UNCHANGED input

Call_time_h ==
    /\ op = "init"
    /\ op' = "time_h"
    /\ out' = time_h(input)
    /\ UNCHANGED input

Call_time_naive_approx ==
    /\ op = "init"
    /\ op' = "time_naive_approx"
    /\ out' = time_naive_approx(input)
    /\ UNCHANGED input

Call_frac32 ==
    /\ op = "init"
    /\ op' = "frac32"
    /\ out' = frac32(input)
    /\ UNCHANGED input

Call_time_local_hms ==
    /\ op = "init"
    /\ op' = "time_local_hms"
    /\ out' = time_local_hms(input)
    /\ UNCHANGED input

Call_time_local_hm ==
    /\ op = "init"
    /\ op' = "time_local_hm"
    /\ out' = time_local_hm(input)
    /\ UNCHANGED input

Call_time_local_h ==
    /\ op = "init"
    /\ op' = "time_local_h"
    /\ out' = time_local_h(input)
    /\ UNCHANGED input

Call_time_local_approx ==
    /\ op = "init"
    /\ op' = "time_local_approx"
    /\ out' = time_local_approx(input)
    /\ UNCHANGED input

Call_time_global_hms ==
    /\ op = "init"
    /\ op' = "time_global_hms"
    /\ out' = time_global_hms(input)
    /\ UNCHANGED input

Call_time_global_hm ==
    /\ op = "init"
    /\ op' = "time_global_hm"
    /\ out' = time_global_hm(input)
    /\ UNCHANGED input

Call_time_global_h ==
    /\ op = "init"
    /\ op' = "time_global_h"
    /\ out' = time_global_h(input)
    /\ UNCHANGED input

Call_time_global_approx ==
    /\ op = "init"
    /\ op' = "time_global_approx"
    /\ out' = time_global_approx(input)
    /\ UNCHANGED input

Call_time_any_hms ==
    /\ op = "init"
    /\ op' = "time_any_hms"
    /\ out' = time_any_hms(input)
    /\ UNCHANGED input

Call_time_any_hm ==
    /\ op = "init"
    /\ op' = "time_any_hm"
    /\ out' = time_any_hm(input)
    /\ UNCHANGED input

Call_time_any_h ==
    /\ op = "init"
    /\ op' = "time_any_h"
    /\ out' = time_any_h(input)
    /\ UNCHANGED input

Call_time_any_approx ==
    /\ op = "init"
    /\ op' = "time_any_approx"
    /\ out' = time_any_approx(input)
    /\ UNCHANGED input

Call_timezone_utc ==
    /\ op = "init"
    /\ op' = "timezone_utc"
    /\ out' = timezone_utc(input)
    /\ UNCHANGED input

Call_timezone_fixed ==
    /\ op = "init"
    /\ op' = "timezone_fixed"
    /\ out' = timezone_fixed(input)
    /\ UNCHANGED input

Call_timezone ==
    /\ op = "init"
    /\ op' = "timezone"
    /\ out' = timezone(input)
    /\ UNCHANGED input

Call_datetime_global_hms ==
    /\ op = "init"
    /\ op' = "datetime_global_hms"
    /\ out' = datetime_global_hms(input)
    /\ UNCHANGED input

Call_datetime_global_hm ==
    /\ op = "init"
    /\ op' = "datetime_global_hm"
    /\ out' = datetime_global_hm(input)
    /\ UNCHANGED input

Call_datetime_global_h ==
    /\ op = "init"
    /\ op' = "datetime_global_h"
    /\ out' = datetime_global_h(input)
    /\ UNCHANGED input

Call_datetime_local_hms ==
    /\ op = "init"
    /\ op' = "datetime_local_hms"
    /\ out' = datetime_local_hms(input)
    /\ UNCHANGED input

Call_datetime_local_hm ==
    /\ op = "init"
    /\ op' = "datetime_local_hm"
    /\ out' = datetime_local_hm(input)
    /\ UNCHANGED input

Call_datetime_local_h ==
    /\ op = "init"
    /\ op' = "datetime_local_h"
    /\ out' = datetime_local_h(input)
    /\ UNCHANGED input

Call_datetime_any_hms ==
    /\ op = "init"
    /\ op' = "datetime_any_hms"
    /\ out' = datetime_any_hms(input)
    /\ UNCHANGED input

Call_datetime_any_hm ==
    /\ op = "init"
    /\ op' = "datetime_any_hm"
    /\ out' = datetime_any_hm(input)
    /\ UNCHANGED input

Call_datetime_any_h ==
    /\ op = "init"
    /\ op' = "datetime_any_h"
    /\ out' = datetime_any_h(input)
    /\ UNCHANGED input

Call_datetime_global_approx ==
    /\ op = "init"
    /\ op' = "datetime_global_approx"
    /\ out' = datetime_global_approx(input)
    /\ UNCHANGED input

Call_datetime_local_approx ==
    /\ op = "init"
    /\ op' = "datetime_local_approx"
    /\ out' = datetime_local_approx(input)
    /\ UNCHANGED input

Call_datetime_any_approx ==
    /\ op = "init"
    /\ op' = "datetime_any_approx"
    /\ out' = datetime_any_approx(input)
    /\ UNCHANGED input

Call_datetime_approx_global_hms ==
    /\ op = "init"
    /\ op' = "datetime_approx_global_hms"
    /\ out' = datetime_approx_global_hms(input)
    /\ UNCHANGED input

Call_datetime_approx_global_hm ==
    /\ op = "init"
    /\ op' = "datetime_approx_global_hm"
    /\ out' = datetime_approx_global_hm(input)
    /\ UNCHANGED input

Call_datetime_approx_global_h ==
    /\ op = "init"
    /\ op' = "datetime_approx_global_h"
    /\ out' = datetime_approx_global_h(input)
    /\ UNCHANGED input

Call_datetime_approx_local_hms ==
    /\ op = "init"
    /\ op' = "datetime_approx_local_hms"
    /\ out' = datetime_approx_local_hms(input)
    /\ UNCHANGED input

Call_datetime_approx_local_hm ==
    /\ op = "init"
    /\ op' = "datetime_approx_local_hm"
    /\ out' = datetime_approx_local_hm(input)
    /\ UNCHANGED input

Call_datetime_approx_local_h ==
    /\ op = "init"
    /\ op' = "datetime_approx_local_h"
    /\ out' = datetime_approx_local_h(input)
    /\ UNCHANGED input

Call_datetime_approx_any_hms ==
    /\ op = "init"
    /\ op' = "datetime_approx_any_hms"
    /\ out' = datetime_approx_any_hms(input)
    /\ UNCHANGED input

Call_datetime_approx_any_hm ==
    /\ op = "init"
    /\ op' = "datetime_approx_any_hm"
    /\ out' = datetime_approx_any_hm(input)
    /\ UNCHANGED input

Call_datetime_approx_any_h ==
    /\ op = "init"
    /\ op' = "datetime_approx_any_h"
    /\ out' = datetime_approx_any_h(input)
    /\ UNCHANGED input

Call_datetime_approx_global_approx ==
    /\ op = "init"
    /\ op' = "datetime_approx_global_approx"
    /\ out' = datetime_approx_global_approx(input)
    /\ UNCHANGED input

Call_datetime_approx_local_approx ==
    /\ op = "init"
    /\ op' = "datetime_approx_local_approx"
    /\ out' = datetime_approx_local_approx(input)
    /\ UNCHANGED input

Call_datetime_approx_any_approx ==
    /\ op = "init"
    /\ op' = "datetime_approx_any_approx"
    /\ out' = datetime_approx_any_approx(input)
    /\ UNCHANGED input

Call_partial_datetime_approx_any_approx ==
    /\ op = "init"
    /\ op' = "partial_datetime_approx_any_approx"
    /\ out' = partial_datetime_approx_any_approx(input)
    /\ UNCHANGED input

InitDate ==
    /\ input \in DateInputs
    /\ op = "init"
    /\ out = None

NextDate ==
    \/ Call_sign
    \/ Call_ODate_is_valid
    \/ Call_positive_century
    \/ Call_century
    \/ Call_positive_year
    \/ Call_year
    \/ Call_month
    \/ Call_day
    \/ Call_year_week
    \/ Call_year_day
    \/ Call_week_day
    \/ Call_date_ymd
    \/ Call_date_wd
    \/ Call_date_o
    \/ Call_date
    \/ Call_date_w
    \/ Call_date_ym
    \/ Call_date_y
    \/ Call_date_c
    \/ Call_date_approx

SpecDate == InitDate /\ [][NextDate]_vars

Call_from_str_GlobalTime_HmsTime ==
    /\ op = "init"
    /\ is_utf8(input)
    /\ op' = "from_str_GlobalTime_HmsTime"
    /\ out' = from_str_GlobalTime_HmsTime(input)
    /\ UNCHANGED input

Call_from_str_GlobalTime_HmTime ==
    /\ op = "init"
    /\ is_utf8(input)
    /\ op' = "from_str_GlobalTime_HmTime"
    /\ out' = from_str_GlobalTime_HmTime(input)
    /\ UNCHANGED input

Call_from_str_GlobalTime_HTime ==
    /\ op = "init"
    /\ is_utf8(input)
    /\ op' = "from_str_GlobalTime_HTime"
    /\ out' = from_str_GlobalTime_HTime(input)
    /\ UNCHANGED input

Call_from_str_LocalTime_HmsTime ==
    /\ op = "init"
    /\ is_utf8(input)
    /\ op' = "from_str_LocalTime_HmsTime"
    /\ out' = from_str_LocalTime_HmsTime(input)
    /\ UNCHANGED input

Call_from_str_LocalTime_HmTime ==
    /\ op = "init"
    /\ is_utf8(input)
    /\ op' = "from_str_LocalTime_HmTime"
    /\ out' = from_str_LocalTime_HmTime(input)
    /\ UNCHANGED input

Call_from_str_LocalTime_HTime ==
    /\ op = "init"
    /\ is_utf8(input)
    /\ op' = "from_str_LocalTime_HTime"
    /\ out' = from_str_LocalTime_HTime(input)
    /\ UNCHANGED input

Call_from_str_AnyTime_HmsTime ==
    /\ op = "init"
    /\ is_utf8(input)
    /\ op' = "from_str_AnyTime_HmsTime"
    /\ out' = from_str_AnyTime_HmsTime(input)
    /\ UNCHANGED input

Call_from_str_AnyTime_HmTime ==
    /\ op = "init"
    /\ is_utf8(input)
    /\ op' = "from_str_AnyTime_HmTime"
    /\ out' = from_str_AnyTime_HmTime(input)
    /\ UNCHANGED input

Call_from_str_AnyTime_HTime ==
    /\ op = "init"
    /\ is_utf8(input)
    /\ op' = "from_str_AnyTime_HTime"
    /\ out' = from_str_AnyTime_HTime(input)
    /\ UNCHANGED input

Call_from_str_ApproxGlobalTime ==
    /\ op = "init"
    /\ is_utf8(input)
    /\ op' = "from_str_ApproxGlobalTime"
    /\ out' = from_str_ApproxGlobalTime(input)
    /\ UNCHANGED input

Call_from_str_ApproxLocalTime ==
    /\ op = "init"
    /\ is_utf8(input)
    /\ op' = "from_str_ApproxLocalTime"
    /\ out' = from_str_ApproxLocalTime(input)
    /\ UNCHANGED input

Call_from_str_ApproxAnyTime ==
    /\ op = "init"
    /\ is_utf8(input)
    /\ op' = "from_str_ApproxAnyTime"
    /\ out' = from_str_ApproxAnyTime(input)
    /\ UNCHANGED input

InitTime ==
    /\ input \in TimeInputs
    /\ op = "init"
    /\ out = None

NextTime ==
    \/ Call_hour
    \/ Call_minute
    \/ Call_second
    \/ Call_time_hms
    \/ Call_time_hm
    \/ Call_time_h
    \/ Call_time_naive_approx
    \/ Call_frac32
    \/ Call_time_local_hms
    \/ Call_time_local_hm
    \/ Call_time_local_h
    \/ Call_time_local_approx
    \/ Call_time_global_hms
    \/ Call_time_global_hm
    \/ Call_time_global_h
    \/ Call_time_global_approx
    \/ Call_time_any_hms
    \/ Call_time_any_hm
    \/ Call_time_any_h
    \/ Call_time_any_approx
    \/ Call_timezone_utc
    \/ Call_timezone_fixed
    \/ Call_timezone
    \/ Call_from_str_GlobalTime_HmsTime
    \/ Call_from_str_GlobalTime_HmTime
    \/ Call_from_str_GlobalTime_HTime
    \/ Call_from_str_LocalTime_HmsTime
    \/ Call_from_str_LocalTime_HmTime
    \/ Call_from_str_LocalTime_HTime
    \/ Call_from_str_AnyTime_HmsTime
    \/ Call_from_str_AnyTime_HmTime
    \/ Call_from_str_AnyTime_HTime
    \/ Call_from_str_ApproxGlobalTime
    \/ Call_from_str_ApproxLocalTime
    \/ Call_from_str_ApproxAnyTime

SpecTime == InitTime /\ [][NextTime]_vars

InitZone ==
    /\ input \in ZoneInputs
    /\ op = "init"
    /\ out = None

NextZone ==
    \/ Call_sign
    \/ Call_hour
    \/ Call_minute
    \/ Call_timezone_utc
    \/ Call_timezone_fixed
    \/ Call_timezone

SpecZone == InitZone /\ [][NextZone]_vars

InitDateTime ==
    /\ input \in DTInputs
    /\ op = "init"
    /\ out = None

NextDateTime ==
    \/ Call_date_approx
    \/ Call_time_any_approx
    \/ Call_datetime_global_hms
    \/ Call_datetime_global_hm
    \/ Call_datetime_global_h
    \/ Call_datetime_local_hms
    \/ Call_datetime_local_hm
    \/ Call_datetime_local_h
    \/ Call_datetime_any_hms
    \/ Call_datetime_any_hm
    \/ Call_datetime_any_h
    \/ Call_datetime_global_approx
    \/ Call_datetime_local_approx
    \/ Call_datetime_any_approx
    \/ Call_datetime_approx_global_hms
    \/ Call_datetime_approx_global_hm
    \/ Call_datetime_approx_global_h
    \/ Call_datetime_approx_local_hms
    \/ Call_datetime_approx_local_hm
    \/ Call_datetime_approx_local_h
    \/ Call_datetime_approx_any_hms
    \/ Call_datetime_approx_any_hm
    \/ Call_datetime_approx_any_h
    \/ Call_datetime_approx_global_approx
    \/ Call_datetime_approx_local_approx
    \/ Call_datetime_approx_any_approx
    \/ Call_partial_datetime_approx_any_approx

SpecDateTime == InitDateTime /\ [][NextDateTime]_vars

\* every input of every family, and every function
Init ==
    /\ input \in DateInputs \cup TimeInputs \cup ZoneInputs \cup DTInputs
    /\ op = "init"
    /\ out = None

Next ==
    \/ Call_sign
    \/ Call_ODate_is_valid
    \/ Call_positive_century
    \/ Call_century
    \/ Call_positive_year
    \/ Call_year
    \/ Call_month
    \/ Call_day
    \/ Call_year_week
    \/ Call_year_day
    \/ Call_week_day
    \/ Call_date_ymd
    \/ Call_date_wd
    \/ Call_date_o
    \/ Call_date
    \/ Call_date_w
    \/ Call_date_ym
    \/ Call_date_y
    \/ Call_date_c
    \/ Call_date_approx
    \/ Call_hour
    \/ Call_minute
    \/ Call_second
    \/ Call_time_hms
    \/ Call_time_hm
    \/ Call_time_h
    \/ Call_time_naive_approx
    \/ Call_frac32
    \/ Call_time_local_hms
    \/ Call_time_local_hm
    \/ Call_time_local_h
    \/ Call_time_local_approx
    \/ Call_time_global_hms
    \/ Call_time_global_hm
    \/ Call_time_global_h
    \/ Call_time_global_approx
    \/ Call_time_any_hms
    \/ Call_time_any_hm
    \/ Call_time_any_h
    \/ Call_time_any_approx
    \/ Call_timezone_utc
    \/ Call_timezone_fixed
    \/ Call_timezone
    \/ Call_datetime_global_hms
    \/ Call_datetime_global_hm
    \/ Call_datetime_global_h
    \/ Call_datetime_local_hms
    \/ Call_datetime_local_hm
    \/ Call_datetime_local_h
    \/ Call_datetime_any_hms
    \/ Call_datetime_any_hm
    \/ Call_datetime_any_h
    \/ Call_datetime_global_approx
    \/ Call_datetime_local_approx
    \/ Call_datetime_any_approx
    \/ Call_datetime_approx_global_hms
    \/ Call_datetime_approx_global_hm
    \/ Call_datetime_approx_global_h
    \/ Call_datetime_approx_local_hms
    \/ Call_datetime_approx_local_hm
    \/ Call_datetime_approx_local_h
    \/ Call_datetime_approx_any_hms
    \/ Call_datetime_approx_any_hm
    \/ Call_datetime_approx_any_h
    \/ Call_datetime_approx_global_approx
    \/ Call_datetime_approx_local_approx
    \/ Call_datetime_approx_any_approx
    \/ Call_partial_datetime_approx_any_approx
    \/ Call_from_str_GlobalTime_HmsTime
    \/ Call_from_str_GlobalTime_HmTime
    \/ Call_from_str_GlobalTime_HTime
    \/ Call_from_str_LocalTime_HmsTime
    \/ Call_from_str_LocalTime_HmTime
    \/ Call_from_str_LocalTime_HTime
    \/ Call_from_str_AnyTime_HmsTime
    \/ Call_from_str_AnyTime_HmTime
    \/ Call_from_str_AnyTime_HTime
    \/ Call_from_str_ApproxGlobalTime
    \/ Call_from_str_ApproxLocalTime
    \/ Call_from_str_ApproxAnyTime

Spec == Init /\ [][Next]_vars

(***************************************************************************)
(* Properties of the date grammar, checked under SpecDate.                  *)
(***************************************************************************)
\* C2: for every optionally signed 4-digit year, 2-digit month and 2-digit
\* day, date_ymd returns the same YmdDate{year, month, day}, with an empty
\* remainder, on the extended text YYYY-MM-DD and on the basic text YYYYMMDD.
C2_YmdBasicExtendedIdentical ==
    op = "date_ymd" =>
        \A c \in YMDCases :
            (c[2] \in AsciiSigns /\ input = c[1]) =>
                /\ out = Ok(<<>>, YmdDate(SignVal(c[2]) * c[3][1], c[3][2], c[3][3]))
                /\ out = date_ymd(TxtYMD(c[2], c[3][1], c[3][2], c[3][3], ~c[4]))

C2_Witness ==
    /\ op = "date_ymd"
    /\ input = TxtYMD("minus", 333, 6, 11, FALSE)
    /\ out = Ok(<<>>, YmdDate(-333, 6, 11))

\* C7: a leading '-' negates the year and nothing else, '+' or no sign leaves
\* it positive; month, day, week and ordinal day are the non-negative values
\* of their digit fields, in basic and in extended form alike.
C7_SignNegatesYearOnly ==
    /\ op = "year" =>
           \A c \in YCases :
               (c[2] \in AsciiSigns /\ input = c[1]) =>
                   out = Ok(<<>>, SignVal(c[2]) * c[3][1])
    /\ op = "date_ymd" =>
           \A c \in YMDCases :
               (c[2] \in AsciiSigns /\ input = c[1]) =>
                   /\ IsOk(out)
                   /\ out.val.year = SignVal(c[2]) * c[3][1]
                   /\ out.val.month = c[3][2] /\ out.val.day = c[3][3]
    /\ op = "date_ym" =>
           \A c \in YMCases :
               (c[2] \in AsciiSigns /\ input = c[1]) =>
                   /\ IsOk(out)
                   /\ out.val.year = SignVal(c[2]) * c[3][1]
                   /\ out.val.month = c[3][2]
    /\ op = "date_wd" =>
           \A c \in WDCases :
               (c[2] \in AsciiSigns /\ input = c[1]) =>
                   /\ IsOk(out)
                   /\ out.val.year = SignVal(c[2]) * c[3][1]
                   /\ out.val.week = c[3][2] /\ out.val.day = c[3][3]
    /\ op = "date_w" =>
           \A c \in WCases :
               (c[2] \in AsciiSigns /\ input = c[1]) =>
                   /\ IsOk(out)
                   /\ out.val.year = SignVal(c[2]) * c[3][1]
                   /\ out.val.week = c[3][2]
    /\ op = "date_o" =>
           \A c \in OCases :
               (c[2] \in AsciiSigns /\ input = c[1]) =>
                   /\ IsOk(out)
                   /\ out.val.year = SignVal(c[2]) * c[3][1]
                   /\ out.val.day = c[3][2]

C7_Witness ==
    /\ op = "date_ymd"
    /\ input = TxtYMD("minus", 333, 6, 11, TRUE)
    /\ IsOk(out) /\ out.val.year = -333 /\ out.val.month = 6 /\ out.val.day = 11

\* C8: on the UTF-8 encoding of U+2212 or U+2010 followed by a 4-digit year,
\* sign consumes the whole encoded character and year returns the negated
\* year, as for ASCII '-'.
C8_UnicodeMinusNegates ==
    \A c \in YCases :
        (c[2] \in {"u2212", "u2010"} /\ input = c[1]) =>
            /\ op = "sign" => out = Ok(Dig(c[3][1], 4), -1)
            /\ op = "year" => out = Ok(<<>>, -c[3][1])

(***************************************************************************)
(* Properties of the time grammar and of from_str, checked under SpecTime,  *)
(* and of the timezone parser, checked under SpecZone.                      *)
(***************************************************************************)
FromStrTypes == {"GlobalTime_HmsTime", "GlobalTime_HmTime", "GlobalTime_HTime", "LocalTime_HmsTime", "LocalTime_HmTime", "LocalTime_HTime", "AnyTime_HmsTime", "AnyTime_HmTime", "AnyTime_HTime", "ApproxGlobalTime", "ApproxLocalTime", "ApproxAnyTime"}

\* the grammar parser and the validity predicate each FromStr type is given
GrammarOf(ty, i) ==
    CASE
         ty = "GlobalTime_HmsTime" -> time_global_hms(i)
      [] ty = "GlobalTime_HmTime" -> time_global_hm(i)
      [] ty = "GlobalTime_HTime" -> time_global_h(i)
      [] ty = "LocalTime_HmsTime" -> time_local_hms(i)
      [] ty = "LocalTime_HmTime" -> time_local_hm(i)
      [] ty = "LocalTime_HTime" -> time_local_h(i)
      [] ty = "AnyTime_HmsTime" -> time_any_hms(i)
      [] ty = "AnyTime_HmTime" -> time_any_hm(i)
      [] ty = "AnyTime_HTime" -> time_any_h(i)
      [] ty = "ApproxGlobalTime" -> time_global_approx(i)
      [] ty = "ApproxLocalTime" -> time_local_approx(i)
      [] ty = "ApproxAnyTime" -> time_any_approx(i)

ValidOf(ty, v) ==
    CASE
         ty = "GlobalTime_HmsTime" -> GlobalTime_is_valid(v)
      [] ty = "GlobalTime_HmTime" -> GlobalTime_is_valid(v)
      [] ty = "GlobalTime_HTime" -> GlobalTime_is_valid(v)
      [] ty = "LocalTime_HmsTime" -> LocalTime_is_valid(v)
      [] ty = "LocalTime_HmTime" -> LocalTime_is_valid(v)
      [] ty = "LocalTime_HTime" -> LocalTime_is_valid(v)
      [] ty = "AnyTime_HmsTime" -> AnyTime_is_valid(v)
      [] ty = "AnyTime_HmTime" -> AnyTime_is_valid(v)
      [] ty = "AnyTime_HTime" -> AnyTime_is_valid(v)
      [] ty = "ApproxGlobalTime" -> ApproxGlobalTime_is_valid(v)
      [] ty = "ApproxLocalTime" -> ApproxLocalTime_is_valid(v)
      [] ty = "ApproxAnyTime" -> ApproxAnyTime_is_valid(v)

\* C1: for every type with a FromStr implementation, from_str(s) is
\* Err(InvalidFormat) exactly when the grammar parser fails on s,
\* Err(InvalidDate) exactly when the parser succeeds with a value whose
\* is_valid() is false, and Ok(v) otherwise; every Ok value is valid.
C1_FromStrTwoStages ==
    \A ty \in FromStrTypes :
        op = "from_str_" \o ty =>
            LET g == GrammarOf(ty, input)
            IN  /\ (out = ResErr("InvalidFormat")) <=> ~IsOk(g)
                /\ (out = ResErr("InvalidDate")) <=> (IsOk(g) /\ ~ValidOf(ty, g.val))
                /\ (IsOk(g) /\ ValidOf(ty, g.val)) => out = ResOk(g.val)
                /\ out.tag = "Ok" => ValidOf(ty, out.val)

C1_Witness ==
    /\ op = "from_str_LocalTime_HmTime"
    /\ input = TxtHM(12, 60, TRUE)
    /\ out = ResErr("InvalidDate")

\* C9: timezone returns 0 for 'Z' and sign * (hh*60 + mm) minutes for a fixed
\* offset of sign, 2-digit hour and optional 2-digit minute (mm = 0 when
\* absent), whether or not a ':' separates them.
C9_TimezoneMinutes ==
    op = "timezone" =>
        \A t \in Trails :
            /\ input = <<CH_Z>> \o t => out = Ok(t, 0)
            /\ \A c \in ZoneCases :
                   input = c[1] \o t =>
                       /\ out = Ok(t, ZoneVal(c[2], c[3], c[4]))
                       /\ out = timezone(TxtZone(c[2], c[3], c[4], ~c[5]) \o t)

C9_Witness ==
    /\ op = "timezone"
    /\ input = TxtZone("minus", 23, Some(59), TRUE)
    /\ out = Ok(<<>>, -1439)

\* the timezone of the GlobalTime inside a parsed time value, if it has one
RECURSIVE TimezoneOf(_)
TimezoneOf(v) ==
    IF "timezone" \in DOMAIN v THEN Some(v.timezone)
    ELSE IF "variant" \in DOMAIN v /\ v.variant # "Local" THEN TimezoneOf(v.v)
    ELSE None

GlobalGrammarOps ==
    {"time_global_hms", "time_global_hm", "time_global_h", "time_global_approx",
     "time_any_hms", "time_any_hm", "time_any_h", "time_any_approx"}

GlobalFromStrOps == {"from_str_" \o ty : ty \in {"GlobalTime_HmsTime", "GlobalTime_HmTime", "GlobalTime_HTime", "AnyTime_HmsTime", "AnyTime_HmTime", "AnyTime_HTime", "ApproxGlobalTime", "ApproxAnyTime"}}

\* C10 as stated: the timezone of every GlobalTime built by a successful
\* global-time or any-time grammar parse is strictly within (-1440, 1440).
C10_ParsedTimezoneInRange ==
    (op \in GlobalGrammarOps /\ IsOk(out) /\ TimezoneOf(out.val).some) =>
        (TimezoneOf(out.val).v > -1440 /\ TimezoneOf(out.val).v < 1440)

\* C10 amended: the timezone of every GlobalTime returned in Ok by from_str
\* is strictly within (-1440, 1440); a successful grammar parse alone only
\* keeps it within [-6039, 6039], the range of sign * (hh*60 + mm).
C10_ValidTimezoneInRange ==
    /\ (op \in GlobalFromStrOps /\ out.tag = "Ok" /\ TimezoneOf(out.val).some) =>
           (TimezoneOf(out.val).v > -1440 /\ TimezoneOf(out.val).v < 1440)
    /\ (op \in GlobalGrammarOps /\ IsOk(out) /\ TimezoneOf(out.val).some) =>
           (TimezoneOf(out.val).v >= -6039 /\ TimezoneOf(out.val).v <= 6039)

C10_Witness ==
    /\ op = "from_str_GlobalTime_HTime"
    /\ input = TxtH(12) \o TxtZone("plus", 23, Some(59), TRUE)
    /\ out.tag = "Ok"
    /\ out.val.timezone = 1439

(***************************************************************************)
(* Properties of the composition grammar                                    *)
(***************************************************************************)
\* a date part or a time part written in the other of basic and extended
OtherForm(r) == [r EXCEPT !.ext = ~r.ext]

\* C3: partial_datetime_approx_any_approx classifies by what is present: a
\* date-only text yields Date with the date it denotes, a time-only text
\* that starts with 'T' or is colon-delimited yields Time, a text
\* <date>T<time> yields DateTime, and the basic and the extended spelling of
\* one date-time yield the identical result.
C3_PartialClassification ==
    (op = "partial_datetime_approx_any_approx") =>
        \A c \in DTCases :
            (input = c[1]) =>
                /\ (c[2] # NoDate /\ c[3] = <<>> /\ c[4] = NoTime) =>
                       out = Ok(<<>>, PartialDateTime("Date", DateVal(c[2])))
                /\ (c[2] = NoDate /\ c[4] # NoTime
                        /\ (c[3] = <<CH_T>> \/ (c[3] = <<>> /\ c[4].ext))) =>
                       out = Ok(<<>>, PartialDateTime("Time", TimeVal(c[4])))
                /\ (c[2] # NoDate /\ c[3] = <<CH_T>> /\ c[4] # NoTime) =>
                       /\ out = Ok(<<>>, PartialDateTime("DateTime",
                                             DateTime(DateVal(c[2]), TimeVal(c[4]))))
                       /\ out = partial_datetime_approx_any_approx(
                                    DateTxt(OtherForm(c[2])) \o c[3] \o TimeTxt(OtherForm(c[4])))

C3_Witness ==
    /\ op = "partial_datetime_approx_any_approx"
    /\ input = TxtYMD("none", 2018, 8, 2, FALSE) \o <<CH_T>> \o TxtHMS(12, 30, 15, FALSE)
                   \o <<CH_DOT, CH_0 + 2>>
    /\ IsOk(out)
    /\ out.val.variant = "DateTime"
    /\ out.val.v.date = ApproxDate("YMD", YmdDate(2018, 8, 2))
    /\ out.val.v.time.v.v.fraction = Rat(1, 5)

\* the two sub-parses of partial_datetime_approx_any_approx on an input
DateMatched(i) == partial_date_cond(i) /\ IsOk(date_approx(i))

AfterDate(i) == IF DateMatched(i) THEN date_approx(i).rest ELSE i

AfterT(i) == IF Len(i) # 0 /\ i[1] = CH_T THEN Drop(i, 1) ELSE i

TimeMatched(i) == IsOk(time_any_approx(AfterT(AfterDate(i))))

\* C4: whenever partial_datetime_approx_any_approx matches neither a date
\* nor a time, its result is Err::Incomplete, never Err::Error or
\* Err::Failure.
C4_NeitherIsIncomplete ==
    (op = "partial_datetime_approx_any_approx"
        /\ ~DateMatched(input) /\ ~TimeMatched(input)) =>
        out = Incomplete

ExactDatetimeOps ==
    {"datetime_global_hms", "datetime_global_hm", "datetime_global_h",
     "datetime_local_hms", "datetime_local_hm", "datetime_local_h",
     "datetime_any_hms", "datetime_any_hm", "datetime_any_h",
     "datetime_global_approx", "datetime_local_approx", "datetime_any_approx"}

ApproxDatetimeOps ==
    {"datetime_approx_global_hms", "datetime_approx_global_hm",
     "datetime_approx_global_h", "datetime_approx_local_hms",
     "datetime_approx_local_hm", "datetime_approx_local_h",
     "datetime_approx_any_hms", "datetime_approx_any_hm",
     "datetime_approx_any_h", "datetime_approx_global_approx",
     "datetime_approx_local_approx", "datetime_approx_any_approx"}

DatetimeOps == ExactDatetimeOps \cup ApproxDatetimeOps

\* the texts in which "TT" follows the date part
DoubleTTexts == {c[1] : c \in {k \in DTCases : k[3] = <<CH_T, CH_T>>}}

\* the date parser a composed parser starts with
DateParserOf(name, i) == IF name \in ApproxDatetimeOps THEN date_approx(i) ELSE date(i)

\* C5: each of the 24 datetime_* parsers succeeds only when what its date
\* parser leaves starts with one 'T' that is not followed by another; a
\* date followed by "TT" fails, and an input without 'T' fails.
C5_ExactlyOneT ==
    (op \in DatetimeOps) =>
        /\ IsOk(out) =>
               Bind(DateParserOf(op, input),
                    LAMBDA d : /\ IsOk(d)
                               /\ Len(d.rest) >= 2
                               /\ d.rest[1] = CH_T
                               /\ d.rest[2] # CH_T
                               /\ out.val.date = d.val)
        /\ ~find_token(input, CH_T) => ~IsOk(out)
        /\ (input \in DoubleTTexts) => ~IsOk(out)

C5_Witness ==
    /\ op = "datetime_approx_any_approx"
    /\ input = TxtYMD("none", 2018, 8, 2, TRUE) \o <<CH_T, CH_T>>
                   \o TxtHMS(12, 30, 15, TRUE) \o <<CH_Z>>
    /\ out = Error("Not")

\* C6: on <date>TT<time>, partial_datetime_approx_any_approx does not return
\* PartialDateTime::DateTime.
C6_PartialRejectsDoubleT ==
    (op = "partial_datetime_approx_any_approx") =>
        \A c \in DTCases :
            (input = c[1] /\ c[2] # NoDate /\ c[3] = <<CH_T, CH_T>> /\ c[4] # NoTime) =>
                ~(IsOk(out) /\ out.val.variant = "DateTime")

(***************************************************************************)
(* Values of the time types: any value can be built, the fields are public *)
(***************************************************************************)
MaxFracDen == 2

\* a value with the name of its type
TV(ty, v) == [ty |-> ty, v |-> v]

ValHours == {0, 12, 24, 25}
ValMinutes == {0, 5, 30, 59, 60}
ValSeconds == {0, 15, 45, 60, 61}

\* fractions k/d in lowest terms, with those outside [0, 1)
ValFractions ==
    {Rat(k, d) : k \in 0..MaxFracDen, d \in 1..MaxFracDen}
        \cup {Rat(1, 5), Rat(1, 10), Rat(-1, 5), Rat(9, 10), Rat(1, 15), Rat(7, 60)}

ValTimezones == {-1440, -1439, 0, 90, 1439, 1440}

Precisions == {"HmsTime", "HmTime", "HTime"}

NaiveValues(prec) ==
    CASE prec = "HmsTime" ->
             {HmsTime(h, m, sec) : h \in ValHours, m \in ValMinutes, sec \in ValSeconds}
      [] prec = "HmTime" -> {HmTime(h, m) : h \in ValHours, m \in ValMinutes}
      [] prec = "HTime" -> {HTime(h) : h \in ValHours}

\* the variant of an Approx enum that holds a time of the precision
VariantOf(prec) ==
    CASE prec = "HmsTime" -> "HMS" [] prec = "HmTime" -> "HM" [] prec = "HTime" -> "H"

\* the values of every time type built on one LocalTime and one timezone
WrappersOf(prec, l, z) ==
    { TV(prec, l.naive),
      TV("LocalTime_" \o prec, l),
      TV("GlobalTime_" \o prec, GlobalTime(l, z)),
      TV("AnyTime_" \o prec, AnyTime("Local", l)),
      TV("AnyTime_" \o prec, AnyTime("Global", GlobalTime(l, z))),
      TV("ApproxLocalTime", ApproxLocalTime(VariantOf(prec), l)),
      TV("ApproxGlobalTime", ApproxGlobalTime(VariantOf(prec), GlobalTime(l, z))),
      TV("ApproxAnyTime", ApproxAnyTime(VariantOf(prec), AnyTime("Local", l))),
      TV("ApproxAnyTime", ApproxAnyTime(VariantOf(prec), AnyTime("Global", GlobalTime(l, z)))) }

TypesOver(name) == {name \o "_" \o q : q \in Precisions}

Call_HTime_is_valid ==
    /\ op = "init"
    /\ input.ty = "HTime"
    /\ op' = "HTime_is_valid"
    /\ out' = HTime_is_valid(input.v)
    /\ UNCHANGED input

Call_HmTime_is_valid ==
    /\ op = "init"
    /\ input.ty = "HmTime"
    /\ op' = "HmTime_is_valid"
    /\ out' = HmTime_is_valid(input.v)
    /\ UNCHANGED input

Call_HmsTime_is_valid ==
    /\ op = "init"
    /\ input.ty = "HmsTime"
    /\ op' = "HmsTime_is_valid"
    /\ out' = HmsTime_is_valid(input.v)
    /\ UNCHANGED input

Call_LocalTime_is_valid ==
    /\ op = "init"
    /\ input.ty \in TypesOver("LocalTime")
    /\ op' = "LocalTime_is_valid"
    /\ out' = LocalTime_is_valid(input.v)
    /\ UNCHANGED input

Call_GlobalTime_is_valid ==
    /\ op = "init"
    /\ input.ty \in TypesOver("GlobalTime")
    /\ op' = "GlobalTime_is_valid"
    /\ out' = GlobalTime_is_valid(input.v)
    /\ UNCHANGED input

Call_AnyTime_is_valid ==
    /\ op = "init"
    /\ input.ty \in TypesOver("AnyTime")
    /\ op' = "AnyTime_is_valid"
    /\ out' = AnyTime_is_valid(input.v)
    /\ UNCHANGED input

Call_ApproxLocalTime_is_valid ==
    /\ op = "init"
    /\ input.ty = "ApproxLocalTime"
    /\ op' = "ApproxLocalTime_is_valid"
    /\ out' = ApproxLocalTime_is_valid(input.v)
    /\ UNCHANGED input

Call_ApproxGlobalTime_is_valid ==
    /\ op = "init"
    /\ input.ty = "ApproxGlobalTime"
    /\ op' = "ApproxGlobalTime_is_valid"
    /\ out' = ApproxGlobalTime_is_valid(input.v)
    /\ UNCHANGED input

Call_ApproxAnyTime_is_valid ==
    /\ op = "init"
    /\ input.ty = "ApproxAnyTime"
    /\ op' = "ApproxAnyTime_is_valid"
    /\ out' = ApproxAnyTime_is_valid(input.v)
    /\ UNCHANGED input

InitValid ==
    /\ \E q \in Precisions, f \in ValFractions, z \in ValTimezones :
           \E n \in NaiveValues(q) : input \in WrappersOf(q, LocalTime(n, f), z)
    /\ op = "init"
    /\ out = None

NextValid ==
    \/ Call_HTime_is_valid
    \/ Call_HmTime_is_valid
    \/ Call_HmsTime_is_valid
    \/ Call_LocalTime_is_valid
    \/ Call_GlobalTime_is_valid
    \/ Call_AnyTime_is_valid
    \/ Call_ApproxLocalTime_is_valid
    \/ Call_ApproxGlobalTime_is_valid
    \/ Call_ApproxAnyTime_is_valid

SpecValid == InitValid /\ [][NextValid]_vars

(***************************************************************************)
(* Properties of the validity predicates of the time types                  *)
(***************************************************************************)
\* the ranges of the fields a naive time has
NaiveInRange(n) ==
    /\ n.hour <= 24
    /\ ("minute" \in DOMAIN n) => n.minute <= 59
    /\ ("second" \in DOMAIN n) => n.second <= 60

\* C11: HTime is valid iff hour <= 24, HmTime iff also minute <= 59, HmsTime
\* iff also second <= 60.
C11_NaiveValidity ==
    /\ (op = "HTime_is_valid") => (out <=> input.v.hour <= 24)
    /\ (op = "HmTime_is_valid") => (out <=> (input.v.hour <= 24 /\ input.v.minute <= 59))
    /\ (op = "HmsTime_is_valid") =>
           (out <=> (input.v.hour <= 24 /\ input.v.minute <= 59 /\ input.v.second <= 60))

C11_Witness ==
    /\ op = "HmsTime_is_valid"
    /\ input.v = HmsTime(24, 59, 60)
    /\ out = TRUE

LocalInRange(l) ==
    NaiveInRange(l.naive) /\ l.fraction.num >= 0 /\ l.fraction.num < l.fraction.den

GlobalInRange(g) == LocalInRange(g.local) /\ g.timezone > -1440 /\ g.timezone < 1440

AnyInRange(a) == IF a.variant = "Global" THEN GlobalInRange(a.v) ELSE LocalInRange(a.v)

\* the naive time at the bottom of a time value
RECURSIVE NaiveOf(_)
NaiveOf(v) ==
    IF "hour" \in DOMAIN v THEN v
    ELSE IF "naive" \in DOMAIN v THEN v.naive
    ELSE IF "local" \in DOMAIN v THEN NaiveOf(v.local)
    ELSE NaiveOf(v.v)

WrapperValidityOps ==
    {"LocalTime_is_valid", "GlobalTime_is_valid", "AnyTime_is_valid",
     "ApproxLocalTime_is_valid", "ApproxGlobalTime_is_valid", "ApproxAnyTime_is_valid"}

\* C12: LocalTime is valid iff its naive time is valid and 0 <= fraction < 1,
\* GlobalTime iff its LocalTime is valid and -1440 < timezone < 1440, AnyTime
\* and the Approx times iff the value they wrap is valid; an invalid naive
\* time makes every wrapper around it invalid.
C12_ValidityBottomUp ==
    /\ (op = "LocalTime_is_valid") => (out <=> LocalInRange(input.v))
    /\ (op = "GlobalTime_is_valid") => (out <=> GlobalInRange(input.v))
    /\ (op = "AnyTime_is_valid") => (out <=> AnyInRange(input.v))
    /\ (op = "ApproxLocalTime_is_valid") => (out <=> LocalInRange(input.v.v))
    /\ (op = "ApproxGlobalTime_is_valid") => (out <=> GlobalInRange(input.v.v))
    /\ (op = "ApproxAnyTime_is_valid") => (out <=> AnyInRange(input.v.v))
    /\ (op \in WrapperValidityOps /\ ~NaiveInRange(NaiveOf(input.v))) => out = FALSE

C12_Witness ==
    /\ op = "ApproxAnyTime_is_valid"
    /\ input.v = ApproxAnyTime("HM", AnyTime("Global",
                     GlobalTime(LocalTime(HmTime(25, 30), Rat(1, 2)), 90)))
    /\ out = FALSE

(***************************************************************************)
(* Properties of ordinal dates                                              *)
(***************************************************************************)
\* C13: date_o succeeds on every year and 3-digit day, whatever the day, and
\* returns ODate{year, day}; the value is valid only when its day is within
\* 1..365, or 1..366 in a leap year, so "2022-367" parses and is not valid.
C13_OrdinalParseThenValidity ==
    /\ (op = "date_o") =>
           \A c \in OCases :
               (c[2] \in AsciiSigns /\ input = c[1]) =>
                   out = Ok(<<>>, ODate(SignVal(c[2]) * c[3][1], c[3][2]))
    /\ (op = "ODate_is_valid") =>
           /\ out.date = date_o(input).val
           /\ out.valid =>
                  /\ out.date.day \in 1..366
                  /\ (out.date.day = 366) =>
                         (out.date.year % 4 = 0
                              /\ (out.date.year % 100 # 0 \/ out.date.year % 400 = 0))

C13_Witness ==
    /\ op = "ODate_is_valid"
    /\ input = TxtO("none", 2022, 367, TRUE)
    /\ out.date = ODate(2022, 367)
    /\ out.valid = FALSE

(***************************************************************************)
(* Conversions: a caller holds a LocalTime and converts it once             *)
(***************************************************************************)
ConvHours == {0, 12, 16, 24}
ConvMinutes == {0, 4, 5, 6, 30, 59}
ConvSeconds == {0, 15, 16, 45, 59, 60}

ConvNaiveValues(prec) ==
    CASE prec = "HmsTime" ->
             {HmsTime(h, m, sec) : h \in ConvHours, m \in ConvMinutes, sec \in ConvSeconds}
      [] prec = "HmTime" -> {HmTime(h, m) : h \in ConvHours, m \in ConvMinutes}
      [] prec = "HTime" -> {HTime(h) : h \in ConvHours}

Call_LocalTime_HmTime_second ==
    /\ op = "init"
    /\ input.ty = "LocalTime_HmTime"
    /\ op' = "LocalTime_HmTime_second"
    /\ out' = LocalTime_HmTime_second(input.v)
    /\ UNCHANGED input

Call_LocalTime_HTime_minute ==
    /\ op = "init"
    /\ input.ty = "LocalTime_HTime"
    /\ op' = "LocalTime_HTime_minute"
    /\ out' = LocalTime_HTime_minute(input.v)
    /\ UNCHANGED input

Call_LocalTime_HTime_second ==
    /\ op = "init"
    /\ input.ty = "LocalTime_HTime"
    /\ op' = "LocalTime_HTime_second"
    /\ out' = LocalTime_HTime_second(input.v)
    /\ UNCHANGED input

Call_LocalTime_HmsTime_nanosecond ==
    /\ op = "init"
    /\ input.ty = "LocalTime_HmsTime"
    /\ op' = "LocalTime_HmsTime_nanosecond"
    /\ out' = LocalTime_HmsTime_nanosecond(input.v)
    /\ UNCHANGED input

Call_LocalTime_HmTime_nanosecond ==
    /\ op = "init"
    /\ input.ty = "LocalTime_HmTime"
    /\ op' = "LocalTime_HmTime_nanosecond"
    /\ out' = LocalTime_HmTime_nanosecond(input.v)
    /\ UNCHANGED input

Call_LocalTime_HTime_nanosecond ==
    /\ op = "init"
    /\ input.ty = "LocalTime_HTime"
    /\ op' = "LocalTime_HTime_nanosecond"
    /\ out' = LocalTime_HTime_nanosecond(input.v)
    /\ UNCHANGED input

Call_From_LocalTime_HmsTime_for_LocalTime_HmTime ==
    /\ op = "init"
    /\ input.ty = "LocalTime_HmsTime"
    /\ op' = "From_LocalTime_HmsTime_for_LocalTime_HmTime"
    /\ out' = From_LocalTime_HmsTime_for_LocalTime_HmTime(input.v)
    /\ UNCHANGED input

Call_From_LocalTime_HmsTime_for_LocalTime_HTime ==
    /\ op = "init"
    /\ input.ty = "LocalTime_HmsTime"
    /\ op' = "From_LocalTime_HmsTime_for_LocalTime_HTime"
    /\ out' = From_LocalTime_HmsTime_for_LocalTime_HTime(input.v)
    /\ UNCHANGED input

Call_From_LocalTime_HmTime_for_LocalTime_HTime ==
    /\ op = "init"
    /\ input.ty = "LocalTime_HmTime"
    /\ op' = "From_LocalTime_HmTime_for_LocalTime_HTime"
    /\ out' = From_LocalTime_HmTime_for_LocalTime_HTime(input.v)
    /\ UNCHANGED input

Call_From_LocalTime_HmTime_for_LocalTime_HmsTime ==
    /\ op = "init"
    /\ input.ty = "LocalTime_HmTime"
    /\ op' = "From_LocalTime_HmTime_for_LocalTime_HmsTime"
    /\ out' = From_LocalTime_HmTime_for_LocalTime_HmsTime(input.v)
    /\ UNCHANGED input

Call_From_LocalTime_HTime_for_LocalTime_HmsTime ==
    /\ op = "init"
    /\ input.ty = "LocalTime_HTime"
    /\ op' = "From_LocalTime_HTime_for_LocalTime_HmsTime"
    /\ out' = From_LocalTime_HTime_for_LocalTime_HmsTime(input.v)
    /\ UNCHANGED input

InitConv ==
    /\ \E q \in Precisions, f \in ValFractions :
           \E n \in ConvNaiveValues(q) : input = TV("LocalTime_" \o q, LocalTime(n, f))
    /\ op = "init"
    /\ out = None

NextConv ==
    \/ Call_LocalTime_HmTime_second
    \/ Call_LocalTime_HmsTime_nanosecond
    \/ Call_LocalTime_HmTime_nanosecond
    \/ Call_LocalTime_HTime_nanosecond
    \/ Call_LocalTime_HTime_minute
    \/ Call_LocalTime_HTime_second
    \/ Call_From_LocalTime_HmsTime_for_LocalTime_HmTime
    \/ Call_From_LocalTime_HmsTime_for_LocalTime_HTime
    \/ Call_From_LocalTime_HmTime_for_LocalTime_HTime
    \/ Call_From_LocalTime_HmTime_for_LocalTime_HmsTime
    \/ Call_From_LocalTime_HTime_for_LocalTime_HmsTime

SpecConv == InitConv /\ [][NextConv]_vars

(***************************************************************************)
(* Properties of the conversions between precisions                         *)
(***************************************************************************)
\* the time of day a LocalTime denotes, in seconds
SecondsOfDay(l) ==
    IF "second" \in DOMAIN l.naive
    THEN RatAdd(RatOfInt(l.naive.hour * 3600 + l.naive.minute * 60 + l.naive.second),
                l.fraction)
    ELSE IF "minute" \in DOMAIN l.naive
    THEN RatAdd(RatOfInt(l.naive.hour * 3600 + l.naive.minute * 60),
                RatMulInt(l.fraction, 60))
    ELSE RatAdd(RatOfInt(l.naive.hour * 3600), RatMulInt(l.fraction, 3600))

InUnitInterval(f) == f.num >= 0 /\ f.num < f.den

\* the integer part and the fractional part of a rational that is not negative
Floor(a) == a.num \div a.den

Frac(a) == Rat(a.num % a.den, a.den)

\* C14: narrowing a LocalTime keeps the remaining fields and folds the
\* dropped ones into the fraction: HMS->HM gives (second + fraction)/60,
\* HM->H gives (minute + fraction)/60, HMS->H gives
\* minute/60 + (second + fraction)/3600; the time of day is preserved.
C14_NarrowingFolds ==
    /\ (op = "From_LocalTime_HmsTime_for_LocalTime_HmTime") =>
           /\ out.naive = HmTime(input.v.naive.hour, input.v.naive.minute)
           /\ RatMulInt(out.fraction, 60)
                  = RatAdd(RatOfInt(input.v.naive.second), input.v.fraction)
           /\ SecondsOfDay(out) = SecondsOfDay(input.v)
    /\ (op = "From_LocalTime_HmTime_for_LocalTime_HTime") =>
           /\ out.naive = HTime(input.v.naive.hour)
           /\ RatMulInt(out.fraction, 60)
                  = RatAdd(RatOfInt(input.v.naive.minute), input.v.fraction)
           /\ SecondsOfDay(out) = SecondsOfDay(input.v)
    /\ (op = "From_LocalTime_HmsTime_for_LocalTime_HTime") =>
           /\ out.naive = HTime(input.v.naive.hour)
           /\ RatMulInt(out.fraction, 3600)
                  = RatAdd(RatOfInt(input.v.naive.minute * 60 + input.v.naive.second),
                           input.v.fraction)
           /\ SecondsOfDay(out) = SecondsOfDay(input.v)

C14_Witness ==
    /\ op = "From_LocalTime_HmsTime_for_LocalTime_HmTime"
    /\ input.v = LocalTime(HmsTime(12, 30, 45), Rat(1, 5))
    /\ out = LocalTime(HmTime(12, 30), Rat(113, 150))

\* C15: widening a LocalTime with 0 <= fraction < 1 distributes the fraction:
\* H->HMS gives minute = floor(60 f), second = floor(3600 f) mod 60 and
\* fraction = frac(3600 f); HM->HMS keeps the minute and gives
\* second = floor(60 f) and fraction = frac(60 f); the time of day is
\* preserved.
C15_WideningDistributes ==
    /\ (op = "From_LocalTime_HTime_for_LocalTime_HmsTime"
            /\ InUnitInterval(input.v.fraction)) =>
           /\ out.naive = HmsTime(input.v.naive.hour,
                                  Floor(RatMulInt(input.v.fraction, 60)),
                                  Floor(RatMulInt(input.v.fraction, 3600)) % 60)
           /\ out.fraction = Frac(RatMulInt(input.v.fraction, 3600))
           /\ SecondsOfDay(out) = SecondsOfDay(input.v)
    /\ (op = "From_LocalTime_HmTime_for_LocalTime_HmsTime"
            /\ InUnitInterval(input.v.fraction)) =>
           /\ out.naive = HmsTime(input.v.naive.hour, input.v.naive.minute,
                                  Floor(RatMulInt(input.v.fraction, 60)))
           /\ out.fraction = Frac(RatMulInt(input.v.fraction, 60))
           /\ SecondsOfDay(out) = SecondsOfDay(input.v)

\* C16 as stated: a LocalTime<HmsTime> with fraction 0, converted to
\* LocalTime<HmTime> and back, has the original hour and minute and second 0.
C16_RoundTripSecondZero ==
    (op = "From_LocalTime_HmsTime_for_LocalTime_HmTime" /\ input.v.fraction = RatZero) =>
        Bind(From_LocalTime_HmTime_for_LocalTime_HmsTime(out),
             LAMBDA w : /\ w.naive.hour = input.v.naive.hour
                        /\ w.naive.minute = input.v.naive.minute
                        /\ w.naive.second = 0)

\* C16 amended: a valid LocalTime<HmsTime> with fraction 0, converted to
\* LocalTime<HmTime> and back, is the original value: hour, minute and
\* second are reproduced and the fraction is 0 again.
C16_RoundTripReproduces ==
    (op = "From_LocalTime_HmsTime_for_LocalTime_HmTime"
        /\ LocalTime_is_valid(input.v) /\ input.v.fraction = RatZero) =>
        From_LocalTime_HmTime_for_LocalTime_HmsTime(out) = input.v

C16_Witness ==
    /\ op = "From_LocalTime_HmsTime_for_LocalTime_HmTime"
    /\ input.v = LocalTime(HmsTime(12, 30, 45), RatZero)
    /\ out = LocalTime(HmTime(12, 30), Rat(3, 4))
    /\ From_LocalTime_HmTime_for_LocalTime_HmsTime(out) = input.v

\* C17: for a valid LocalTime<HmsTime>, narrowing to HM or to H, widening
\* back to HMS and narrowing again gives the value of the first narrowing.
C17_NarrowWidenNarrow ==
    /\ (op = "From_LocalTime_HmsTime_for_LocalTime_HmTime" /\ LocalTime_is_valid(input.v)) =>
           From_LocalTime_HmsTime_for_LocalTime_HmTime(
               From_LocalTime_HmTime_for_LocalTime_HmsTime(out)) = out
    /\ (op = "From_LocalTime_HmsTime_for_LocalTime_HTime" /\ LocalTime_is_valid(input.v)) =>
           From_LocalTime_HmsTime_for_LocalTime_HTime(
               From_LocalTime_HTime_for_LocalTime_HmsTime(out)) = out

(***************************************************************************)
(* Texts followed by further content: a complete text of a date, a time,   *)
(* a zone, a field or a date-time, then a tail.                             *)
(***************************************************************************)
GrammarOps ==
    {"sign", "positive_century", "century",
     "positive_year", "year", "month",
     "day", "year_week", "year_day",
     "week_day", "date_ymd", "date_wd",
     "date_o", "date", "date_w",
     "date_ym", "date_y", "date_c",
     "date_approx", "hour", "minute",
     "second", "time_hms", "time_hm",
     "time_h", "time_naive_approx", "frac32",
     "time_local_hms", "time_local_hm", "time_local_h",
     "time_local_approx", "time_global_hms", "time_global_hm",
     "time_global_h", "time_global_approx", "time_any_hms",
     "time_any_hm", "time_any_h", "time_any_approx",
     "timezone_utc", "timezone_fixed", "timezone",
     "datetime_global_hms", "datetime_global_hm", "datetime_global_h",
     "datetime_local_hms", "datetime_local_hm", "datetime_local_h",
     "datetime_any_hms", "datetime_any_hm", "datetime_any_h",
     "datetime_global_approx", "datetime_local_approx", "datetime_any_approx",
     "datetime_approx_global_hms", "datetime_approx_global_hm", "datetime_approx_global_h",
     "datetime_approx_local_hms", "datetime_approx_local_hm", "datetime_approx_local_h",
     "datetime_approx_any_hms", "datetime_approx_any_hm", "datetime_approx_any_h",
     "datetime_approx_global_approx", "datetime_approx_local_approx", "datetime_approx_any_approx",
     "partial_datetime_approx_any_approx"}

\* the grammar parser of a name, applied to an input
Apply(name, i) ==
    CASE
         name = "sign" -> sign(i)
      [] name = "positive_century" -> positive_century(i)
      [] name = "century" -> century(i)
      [] name = "positive_year" -> positive_year(i)
      [] name = "year" -> year(i)
      [] name = "month" -> month(i)
      [] name = "day" -> day(i)
      [] name = "year_week" -> year_week(i)
      [] name = "year_day" -> year_day(i)
      [] name = "week_day" -> week_day(i)
      [] name = "date_ymd" -> date_ymd(i)
      [] name = "date_wd" -> date_wd(i)
      [] name = "date_o" -> date_o(i)
      [] name = "date" -> date(i)
      [] name = "date_w" -> date_w(i)
      [] name = "date_ym" -> date_ym(i)
      [] name = "date_y" -> date_y(i)
      [] name = "date_c" -> date_c(i)
      [] name = "date_approx" -> date_approx(i)
      [] name = "hour" -> hour(i)
      [] name = "minute" -> minute(i)
      [] name = "second" -> second(i)
      [] name = "time_hms" -> time_hms(i)
      [] name = "time_hm" -> time_hm(i)
      [] name = "time_h" -> time_h(i)
      [] name = "time_naive_approx" -> time_naive_approx(i)
      [] name = "frac32" -> frac32(i)
      [] name = "time_local_hms" -> time_local_hms(i)
      [] name = "time_local_hm" -> time_local_hm(i)
      [] name = "time_local_h" -> time_local_h(i)
      [] name = "time_local_approx" -> time_local_approx(i)
      [] name = "time_global_hms" -> time_global_hms(i)
      [] name = "time_global_hm" -> time_global_hm(i)
      [] name = "time_global_h" -> time_global_h(i)
      [] name = "time_global_approx" -> time_global_approx(i)
      [] name = "time_any_hms" -> time_any_hms(i)
      [] name = "time_any_hm" -> time_any_hm(i)
      [] name = "time_any_h" -> time_any_h(i)
      [] name = "time_any_approx" -> time_any_approx(i)
      [] name = "timezone_utc" -> timezone_utc(i)
      [] name = "timezone_fixed" -> timezone_fixed(i)
      [] name = "timezone" -> timezone(i)
      [] name = "datetime_global_hms" -> datetime_global_hms(i)
      [] name = "datetime_global_hm" -> datetime_global_hm(i)
      [] name = "datetime_global_h" -> datetime_global_h(i)
      [] name = "datetime_local_hms" -> datetime_local_hms(i)
      [] name = "datetime_local_hm" -> datetime_local_hm(i)
      [] name = "datetime_local_h" -> datetime_local_h(i)
      [] name = "datetime_any_hms" -> datetime_any_hms(i)
      [] name = "datetime_any_hm" -> datetime_any_hm(i)
      [] name = "datetime_any_h" -> datetime_any_h(i)
      [] name = "datetime_global_approx" -> datetime_global_approx(i)
      [] name = "datetime_local_approx" -> datetime_local_approx(i)
      [] name = "datetime_any_approx" -> datetime_any_approx(i)
      [] name = "datetime_approx_global_hms" -> datetime_approx_global_hms(i)
      [] name = "datetime_approx_global_hm" -> datetime_approx_global_hm(i)
      [] name = "datetime_approx_global_h" -> datetime_approx_global_h(i)
      [] name = "datetime_approx_local_hms" -> datetime_approx_local_hms(i)
      [] name = "datetime_approx_local_hm" -> datetime_approx_local_hm(i)
      [] name = "datetime_approx_local_h" -> datetime_approx_local_h(i)
      [] name = "datetime_approx_any_hms" -> datetime_approx_any_hms(i)
      [] name = "datetime_approx_any_hm" -> datetime_approx_any_hm(i)
      [] name = "datetime_approx_any_h" -> datetime_approx_any_h(i)
      [] name = "datetime_approx_global_approx" -> datetime_approx_global_approx(i)
      [] name = "datetime_approx_local_approx" -> datetime_approx_local_approx(i)
      [] name = "datetime_approx_any_approx" -> datetime_approx_any_approx(i)
      [] name = "partial_datetime_approx_any_approx" -> partial_datetime_approx_any_approx(i)

PrefixDateTimes ==
    {[form |-> f, sg |-> "none", ext |-> e] : f \in {"YMD", "WD", "O"}, e \in BOOLEAN}
        \cup {[form |-> "Y", sg |-> "none", ext |-> FALSE]}

PrefixBases ==
    {DateTxt(d) : d \in DTDates}
        \cup {TimeTxt(t) : t \in DTTimes}
        \cup {c[1] : c \in DTZoneCases}
        \cup {Dig(5, 1), Dig(12, 2), Dig(123, 3), Dig(2018, 4), <<CH_PLUS>>, <<CH_MINUS>>}
        \cup {DateTxt(d) \o <<CH_T>> \o TimeTxt(t) : d \in PrefixDateTimes, t \in DTTimes}

PrefixTails == Trails \cup {<<CH_e>>, <<CH_e, CH_SPACE>>, <<CH_COLON>>}

\* <<text, complete text, tail>>
PrefixCases == {<<b \o t, b, t>> : b \in PrefixBases, t \in PrefixTails}

InitPrefix ==
    /\ input \in {c[1] : c \in PrefixCases}
    /\ op = "init"
    /\ out = None

NextPrefix ==
    \/ Call_sign
    \/ Call_positive_century
    \/ Call_century
    \/ Call_positive_year
    \/ Call_year
    \/ Call_month
    \/ Call_day
    \/ Call_year_week
    \/ Call_year_day
    \/ Call_week_day
    \/ Call_date_ymd
    \/ Call_date_wd
    \/ Call_date_o
    \/ Call_date
    \/ Call_date_w
    \/ Call_date_ym
    \/ Call_date_y
    \/ Call_date_c
    \/ Call_date_approx
    \/ Call_hour
    \/ Call_minute
    \/ Call_second
    \/ Call_time_hms
    \/ Call_time_hm
    \/ Call_time_h
    \/ Call_time_naive_approx
    \/ Call_frac32
    \/ Call_time_local_hms
    \/ Call_time_local_hm
    \/ Call_time_local_h
    \/ Call_time_local_approx
    \/ Call_time_global_hms
    \/ Call_time_global_hm
    \/ Call_time_global_h
    \/ Call_time_global_approx
    \/ Call_time_any_hms
    \/ Call_time_any_hm
    \/ Call_time_any_h
    \/ Call_time_any_approx
    \/ Call_timezone_utc
    \/ Call_timezone_fixed
    \/ Call_timezone
    \/ Call_datetime_global_hms
    \/ Call_datetime_global_hm
    \/ Call_datetime_global_h
    \/ Call_datetime_local_hms
    \/ Call_datetime_local_hm
    \/ Call_datetime_local_h
    \/ Call_datetime_any_hms
    \/ Call_datetime_any_hm
    \/ Call_datetime_any_h
    \/ Call_datetime_global_approx
    \/ Call_datetime_local_approx
    \/ Call_datetime_any_approx
    \/ Call_datetime_approx_global_hms
    \/ Call_datetime_approx_global_hm
    \/ Call_datetime_approx_global_h
    \/ Call_datetime_approx_local_hms
    \/ Call_datetime_approx_local_hm
    \/ Call_datetime_approx_local_h
    \/ Call_datetime_approx_any_hms
    \/ Call_datetime_approx_any_hm
    \/ Call_datetime_approx_any_h
    \/ Call_datetime_approx_global_approx
    \/ Call_datetime_approx_local_approx
    \/ Call_datetime_approx_any_approx
    \/ Call_partial_datetime_approx_any_approx

SpecPrefix == InitPrefix /\ [][NextPrefix]_vars

(***************************************************************************)
(* Properties of the remainder                                              *)
(***************************************************************************)
\* C18: on success a grammar parser returns a remainder that is a suffix of
\* the input, and content after a complete value does not make the parse
\* fail: it is returned in the remainder, a trailing space with the value
\* the complete text alone gives.
C18_PrefixParsers ==
    (op \in GrammarOps) =>
        /\ IsOk(out) => \E k \in 0..Len(input) : out.rest = Drop(input, k)
        /\ \A c \in PrefixCases :
               (input = c[1] /\ c[3] # <<>>) =>
                   Bind(Apply(op, c[2]),
                        LAMBDA r :
                            (IsOk(r) /\ r.rest = <<>>) =>
                                /\ IsOk(out)
                                /\ (c[3] \in Trails) => out = Ok(c[3], r.val))

(***************************************************************************)
(* Texts for the field parsers: every short string of digits and other     *)
(* bytes                                                                    *)
(***************************************************************************)
MaxFieldLen == 5

FieldAlphabet == {CH_0, CH_0 + 1, CH_9, CH_MINUS}

InitField ==
    /\ input \in Strings(FieldAlphabet, MaxFieldLen)
    /\ op = "init"
    /\ out = None

NextField ==
    \/ Call_positive_century
    \/ Call_positive_year
    \/ Call_month
    \/ Call_day
    \/ Call_year_week
    \/ Call_year_day
    \/ Call_week_day
    \/ Call_hour
    \/ Call_minute
    \/ Call_second

SpecField == InitField /\ [][NextField]_vars

(***************************************************************************)
(* Properties of the field parsers                                          *)
(***************************************************************************)
\* the number of digits of each fixed-width field
FieldWidth ==
    [f \in {"positive_century", "month", "day", "year_week", "hour", "minute", "second"}
        |-> 2]
        @@ ("year_day" :> 3) @@ ("positive_year" :> 4) @@ ("week_day" :> 1)

HasDigits(i, n) == Len(i) >= n /\ \A k \in 1..n : i[k] >= CH_0 /\ i[k] <= CH_9

\* C19: a field parser of width N consumes exactly N digits and returns
\* their decimal value, whatever follows, and fails when fewer than N bytes
\* are available or one of the first N bytes is not a digit.
C19_FixedWidthFields ==
    (op \in DOMAIN FieldWidth) =>
        IF HasDigits(input, FieldWidth[op])
        THEN /\ IsOk(out)
             /\ out.rest = Drop(input, FieldWidth[op])
             /\ out.val >= 0
             /\ Dig(out.val, FieldWidth[op]) = Take(input, FieldWidth[op])
        ELSE out.tag = "Error"

C19_Witness ==
    /\ op = "year_day"
    /\ input = <<CH_0 + 1, CH_0 + 1, CH_0 + 1, CH_0 + 1>>
    /\ out = Ok(<<CH_0 + 1>>, 111)

(***************************************************************************)
(* The decision of partial_datetime_approx_any_approx to attempt a date     *)
(***************************************************************************)
\* the rule as the documentation words it
DateAttemptRule(i) ==
    \/ \E k \in 2..Len(i) : i[k] = CH_T
    \/ /\ ~(Len(i) >= 1 /\ i[1] = CH_T)
       /\ \A k \in 1..Len(i) : i[k] # CH_COLON

\* what the parser returns when no date is taken from the text i: the
\* optional 'T', then the time grammar
WithoutDate(i) ==
    Bind(time_any_approx(AfterT(i)),
         LAMBDA t : IF IsOk(t) THEN Ok(t.rest, PartialDateTime("Time", t.val))
                    ELSE IF t.tag = "Error" THEN Error("MapRes")
                    ELSE t)

\* what the parser returns when the date d was taken and j is left
WithDate(d, j) ==
    Bind(time_any_approx(AfterT(j)),
         LAMBDA t : IF IsOk(t)
                    THEN Ok(t.rest, PartialDateTime("DateTime", DateTime(d, t.val)))
                    ELSE IF t.tag = "Error"
                    THEN Ok(AfterT(j), PartialDateTime("Date", d))
                    ELSE t)

\* C20: partial_datetime_approx_any_approx attempts the date grammar exactly
\* when the input has a 'T' after its first byte, or does not start with
\* 'T' and has no ':'.  When the rule is false the result is the one of the
\* optional 'T' and the time grammar alone, even if the date grammar would
\* match; when it is true and the date grammar matches, the result carries
\* that date; when it is true on a non-empty input and the date grammar does
\* not match, the date is absent and the result is again the one of the
\* optional 'T' and the time grammar.
C20_DateAttemptRule ==
    (op = "partial_datetime_approx_any_approx") =>
        Bind(date_approx(input),
             LAMBDA d :
                 /\ ~DateAttemptRule(input) => out = WithoutDate(input)
                 /\ (DateAttemptRule(input) /\ IsOk(d)) => out = WithDate(d.val, d.rest)
                 /\ (DateAttemptRule(input) /\ ~IsOk(d) /\ input # <<>>) =>
                        out = WithoutDate(input))

\* "12:30": the date grammar would match the century 12, the colon keeps it
\* from being attempted and the text is a time
C20_WitnessNotAttempted ==
    /\ op = "partial_datetime_approx_any_approx"
    /\ input = TxtHM(12, 30, TRUE)
    /\ ~DateAttemptRule(input)
    /\ IsOk(date_approx(input))
    /\ IsOk(out)
    /\ out.val.variant = "Time"
    /\ out.rest = <<>>

\* a text with two 'T's: the date grammar is attempted, does not match, and
\* the result is the one of the time grammar
C20_WitnessNoDateMatch ==
    /\ op = "partial_datetime_approx_any_approx"
    /\ input # <<>>
    /\ DateAttemptRule(input)
    /\ ~IsOk(date_approx(input))
    /\ IsOk(out)
    /\ out.val.variant = "Time"

(***************************************************************************)
(* Properties of the time grammar                                           *)
(***************************************************************************)
AnyOps == {"time_any_hms", "time_any_hm", "time_any_h", "time_any_approx"}

\* the AnyTime a value of an any-time parser holds
AnyOf(v) == IF v.ty = "ApproxAnyTime" THEN v.v ELSE v

\* the local-time parsers an any-time parser is built on
LocalOpsOf(o) ==
    IF o = "time_any_hms" THEN {"time_local_hms"}
    ELSE IF o = "time_any_hm" THEN {"time_local_hm"}
    ELSE IF o = "time_any_h" THEN {"time_local_h"}
    ELSE {"time_local_hms", "time_local_hm", "time_local_h"}

\* <<local time text, offset text, offset, trail>>
AnyZoneCases ==
    {<<tp \o n[1] \o f[1], z[1], z[2].v, t>> :
        tp \in TPrefixes, n \in NaiveCases, f \in FracCases,
        z \in {y \in ZoneSuffixCases : y[2].some}, t \in Trails}

\* C21: an any-time parser that returns AnyTime::Local leaves a remainder on
\* which the timezone parser does not succeed; and a text that the local
\* parser takes whole, followed by a well-formed offset, gives AnyTime::Global
\* with that offset (and, for the exact precisions, that local time).
C21_NoTrailingOffset ==
    (op \in AnyOps) =>
        /\ (IsOk(out) /\ AnyOf(out.val).variant = "Local") => ~IsOk(timezone(out.rest))
        /\ \A c \in AnyZoneCases :
               (input = c[1] \o c[2] \o c[4]) =>
                   \A lo \in LocalOpsOf(op) :
                       Bind(Apply(lo, c[1]),
                            LAMBDA l :
                                (IsOk(l) /\ l.rest = <<>>) =>
                                    /\ IsOk(out)
                                    /\ out.rest = c[4]
                                    /\ AnyOf(out.val).variant = "Global"
                                    /\ AnyOf(out.val).v.timezone = c[3]
                                    /\ (op # "time_any_approx") =>
                                           AnyOf(out.val).v.local = l.val)

C21_Witness ==
    /\ op = "time_any_hm"
    /\ input = TxtHM(12, 30, TRUE) \o TxtZone("plus", 23, Some(59), TRUE)
    /\ out = Ok(<<>>, AnyTime("Global", GlobalTime(LocalTime(HmTime(12, 30), RatZero), 1439)))

LocalOps == {"time_local_hms", "time_local_hm", "time_local_h", "time_local_approx"}

\* the parser gives the same on i and on 'T' followed by i: both fail, or
\* both succeed with the same value and remainder
SameWithLeadingT(o, i, r) ==
    Bind(Apply(o, <<CH_T>> \o i),
         LAMBDA rt : IF IsOk(r) THEN rt = r ELSE ~IsOk(rt))

\* C22: every local-time parser, time_local_approx included, succeeds on
\* 'T' followed by a text exactly when it succeeds on the text, with the
\* same value and remainder (texts that do not start with 'T' themselves).
C22_OptionalLeadingT ==
    (op \in LocalOps /\ (input = <<>> \/ input[1] # CH_T)) =>
        SameWithLeadingT(op, input, out)

(***************************************************************************)
(* Properties of the order of the date alternatives                         *)
(***************************************************************************)
\* the exact date grammars that match a text
MatchingExact(i) ==
    {g \in {"date_wd", "date_ymd", "date_o"} : IsOk(Apply(g, i))}

\* C23 as stated: at most one of date_wd, date_ymd and date_o matches an
\* input, so date gives what the alternatives give in the reverse order.
C23_AtMostOneMatches ==
    (op = "date") =>
        /\ Cardinality(MatchingExact(input)) <= 1
        /\ IsOk(out) => out = date_ordinal_before_ymd(input)

\* C23 amended: date returns the first match in the order week-date,
\* year-month-day, ordinal.  A week-date match excludes the other two; the
\* year-month-day and the ordinal grammar both match exactly the texts whose
\* year is followed by four digits (basic year-month-day), on which
\* the ordinal grammar takes three of them and leaves the rest, and date
\* returns the year-month-day reading.
C23_FirstMatchInOrder ==
    (op = "date") =>
        /\ ("date_wd" \in MatchingExact(input)) => MatchingExact(input) = {"date_wd"}
        /\ ({"date_ymd", "date_o"} \subseteq MatchingExact(input))
               <=> (IsOk(year(input)) /\ HasDigits(year(input).rest, 4))
        /\ ("date_wd" \in MatchingExact(input)) =>
               out = Ok(date_wd(input).rest, Date("WD", date_wd(input).val))
        /\ ("date_ymd" \in MatchingExact(input)) =>
               out = Ok(date_ymd(input).rest, Date("YMD", date_ymd(input).val))
        /\ (MatchingExact(input) = {"date_o"}) =>
               out = Ok(date_o(input).rest, Date("O", date_o(input).val))
        /\ (MatchingExact(input) = {}) => ~IsOk(out)

\* "20180802": year-month-day, although the ordinal grammar reads 2018-080
C23_Witness ==
    /\ op = "date"
    /\ input = TxtYMD("none", 2018, 8, 2, FALSE)
    /\ MatchingExact(input) = {"date_ymd", "date_o"}
    /\ date_o(input) = Ok(<<CH_0 + 2>>, ODate(2018, 80))
    /\ out = Ok(<<>>, Date("YMD", YmdDate(2018, 8, 2)))

\* the alternatives of date_approx in their order, each with its variant
ApproxAlternatives == <<"date", "date_w", "date_ym", "date_y", "date_c">>

AsApprox(g, v) ==
    CASE g = "date" -> ApproxDate(v.variant, v.v)
      [] g = "date_w" -> ApproxDate("W", v)
      [] g = "date_ym" -> ApproxDate("YM", v)
      [] g = "date_y" -> ApproxDate("Y", v)
      [] g = "date_c" -> ApproxDate("C", v)

\* <<text, the ApproxDate it denotes>> of every ASCII-signed date text
ApproxTexts ==
    {<<c[1], ApproxDate("C", CDate(SignVal(c[2]) * c[3][1]))>> : c \in CCases}
    \cup {<<c[1], ApproxDate("Y", YDate(SignVal(c[2]) * c[3][1]))>> : c \in YCases}
    \cup {<<c[1], ApproxDate("YM", YmDate(SignVal(c[2]) * c[3][1], c[3][2]))>> : c \in YMCases}
    \cup {<<c[1], ApproxDate("YMD", YmdDate(SignVal(c[2]) * c[3][1], c[3][2], c[3][3]))>> :
            c \in YMDCases}
    \cup {<<c[1], ApproxDate("W", WDate(SignVal(c[2]) * c[3][1], c[3][2]))>> : c \in WCases}
    \cup {<<c[1], ApproxDate("WD", WdDate(SignVal(c[2]) * c[3][1], c[3][2], c[3][3]))>> :
            c \in WDCases}
    \cup {<<c[1], ApproxDate("O", ODate(SignVal(c[2]) * c[3][1], c[3][2]))>> : c \in OCases}

AsciiSigned(i) == \A k \in 1..Len(i) : i[k] < 128

\* C24: date_approx returns the first alternative that matches, in the order
\* exact date, year-week, year-month, year, century; a text that is exactly
\* a date of one precision gives the variant of that precision with an empty
\* remainder.
C24_ApproxFirstMatch ==
    (op = "date_approx") =>
        /\ \A k \in 1..Len(ApproxAlternatives) :
               Bind(Apply(ApproxAlternatives[k], input),
                    LAMBDA r :
                        (IsOk(r) /\ \A j \in 1..(k - 1) : ~IsOk(Apply(ApproxAlternatives[j], input)))
                            => out = Ok(r.rest, AsApprox(ApproxAlternatives[k], r.val)))
        /\ (\A k \in 1..Len(ApproxAlternatives) : ~IsOk(Apply(ApproxAlternatives[k], input)))
               => ~IsOk(out)
        /\ \A c \in ApproxTexts :
               (input = c[1] /\ AsciiSigned(input)) => out = Ok(<<>>, c[2])

\* "2018-W05" is a year-week, not the year 2018 with "-W05" left over
C24_Witness ==
    /\ op = "date_approx"
    /\ input = TxtW("none", 2018, 5, TRUE)
    /\ IsOk(date_y(input))
    /\ out = Ok(<<>>, ApproxDate("W", WDate(2018, 5)))

(***************************************************************************)
(* Properties of the conversions and of validity together                   *)
(***************************************************************************)
NarrowingOps ==
    {"From_LocalTime_HmsTime_for_LocalTime_HmTime",
     "From_LocalTime_HmsTime_for_LocalTime_HTime",
     "From_LocalTime_HmTime_for_LocalTime_HTime"}

\* C25: narrowing a valid LocalTime gives a valid LocalTime, with a fraction
\* in [0, 1), the leap second included.
C25_NarrowingPreservesValidity ==
    (op \in NarrowingOps /\ LocalTime_is_valid(input.v)) =>
        /\ InUnitInterval(out.fraction)
        /\ LocalTime_is_valid(out)

\* the nanoseconds within the second of a whole number c of seconds times f
SubSecondNanos(f, c) ==
    Bind(Frac(RatMulInt(f, c)), LAMBDA r : DecimalDigits(r.num, r.den, 9, 0))

\* C27: for a fraction f in [0, 1) the nanosecond of a LocalTime<HmTime> is
\* floor(f * 60 * 10^9) mod 10^9 and that of a LocalTime<HTime> is
\* floor(f * 3600 * 10^9) mod 10^9, and the value is below 10^9.
C27_NanosecondSubSecond ==
    /\ (op = "LocalTime_HmTime_nanosecond" /\ InUnitInterval(input.v.fraction)) =>
           /\ out = SubSecondNanos(input.v.fraction, 60)
           /\ out < Giga
    /\ (op = "LocalTime_HTime_nanosecond" /\ InUnitInterval(input.v.fraction)) =>
           /\ out = SubSecondNanos(input.v.fraction, 3600)
           /\ out < Giga

(***************************************************************************)
(* Values handed to the calendar library: one date, a few local times and   *)
(* every offset of a day and its two bounds                                 *)
(***************************************************************************)
ChronoTimezones == -(24 * 60)..(24 * 60)

ChronoLocalTimes ==
    {LocalTime(HmsTime(12, 30, 15), RatZero), LocalTime(HmsTime(23, 59, 60), Rat(1, 2))}

Call_From_DateTime_Date_GlobalTime_for_DateTime_FixedOffset ==
    /\ op = "init"
    /\ input.ty = "DateTime_Date_GlobalTime"
    /\ op' = "From_DateTime_Date_GlobalTime_for_DateTime_FixedOffset"
    /\ out' \in From_DateTime_Date_GlobalTime_for_DateTime_FixedOffset(input.v)
    /\ UNCHANGED input

InitChrono ==
    /\ \E l \in ChronoLocalTimes, z \in ChronoTimezones :
           input = TV("DateTime_Date_GlobalTime",
                      DateTime(Date("YMD", YmdDate(2018, 8, 2)), GlobalTime(l, z)))
    /\ op = "init"
    /\ out = None

NextChrono == Call_From_DateTime_Date_GlobalTime_for_DateTime_FixedOffset

SpecChrono == InitChrono /\ [][NextChrono]_vars

\* C26: for every valid timezone, the conversion hands timezone * 60 seconds
\* to the calendar library; the 16-bit product does not overflow.
C26_OffsetSeconds ==
    (op = "From_DateTime_Date_GlobalTime_for_DateTime_FixedOffset"
        /\ GlobalTime_is_valid(input.v.time)) =>
        /\ out.tag = "Value"
        /\ out.east = input.v.time.timezone * 60

(***************************************************************************)
(* Properties of from_str and the remainder                                 *)
(***************************************************************************)
\* from_str of the type returns Ok on the text
FromStrOk(ty, s) ==
    Bind(GrammarOf(ty, s), LAMBDA g : IsOk(g) /\ ValidOf(ty, g.val))

\* C28: from_str does not look at the remainder: when the grammar parser
\* returns a valid value, from_str returns it whatever is left over; and a
\* text on which from_str returns Ok, followed by spaces, gives the same Ok
\* result.
C28_RemainderNotInspected ==
    \A ty \in FromStrTypes :
        (op = "from_str_" \o ty) =>
            /\ Bind(GrammarOf(ty, input),
                    LAMBDA g : (IsOk(g) /\ ValidOf(ty, g.val)) => out = ResOk(g.val))
            /\ \A k \in 0..(Len(input) - 1) :
                   (Drop(input, k) \in Trails /\ FromStrOk(ty, Take(input, k))) =>
                       out = ResOk(GrammarOf(ty, Take(input, k)).val)

\* "12:30:15Z" as a local time: the 'Z' is left over and the result is Ok
C28_Witness ==
    /\ op = "from_str_LocalTime_HmsTime"
    /\ input = TxtHMS(12, 30, 15, TRUE) \o <<CH_Z>>
    /\ time_local_hms(input).rest = <<CH_Z>>
    /\ out = ResOk(LocalTime(HmsTime(12, 30, 15), RatZero))

(***************************************************************************)
(* Texts without 'T' and without ':' given to the partial parser            *)
(***************************************************************************)
NoTNoColon(i) == \A k \in 1..Len(i) : i[k] # CH_T /\ i[k] # CH_COLON

\* C29: on an input with neither 'T' nor ':' partial_datetime_approx_any_approx
\* never returns Time; when the input starts with two digits the date
\* grammar matches them and every Ok result carries the date it read.
C29_BareBasicTimeIsDate ==
    (op = "partial_datetime_approx_any_approx" /\ NoTNoColon(input)) =>
        /\ IsOk(out) => out.val.variant # "Time"
        /\ HasDigits(input, 2) =>
               /\ IsOk(date_approx(input))
               /\ IsOk(out) =>
                      \/ (out.val.variant = "Date" /\ out.val.v = date_approx(input).val)
                      \/ (out.val.variant = "DateTime"
                              /\ out.val.v.date = date_approx(input).val)

\* "1230" is the year 1230, not the time 12:30
C29_Witness ==
    /\ op = "partial_datetime_approx_any_approx"
    /\ input = TxtHM(12, 30, FALSE)
    /\ IsOk(time_any_approx(input))
    /\ out = Ok(<<>>, PartialDateTime("Date", ApproxDate("Y", YDate(1230))))

(***************************************************************************)
(* Conversions of GlobalTime and AnyTime values                             *)
(***************************************************************************)
WrapTimezones == {-1439, 0, 90}

Call_From_GlobalTime_HmsTime_for_GlobalTime_HmTime ==
    /\ op = "init"
    /\ input.ty = "GlobalTime_HmsTime"
    /\ op' = "From_GlobalTime_HmsTime_for_GlobalTime_HmTime"
    /\ out' = From_GlobalTime_HmsTime_for_GlobalTime_HmTime(input.v)
    /\ UNCHANGED input

Call_From_GlobalTime_HmsTime_for_GlobalTime_HTime ==
    /\ op = "init"
    /\ input.ty = "GlobalTime_HmsTime"
    /\ op' = "From_GlobalTime_HmsTime_for_GlobalTime_HTime"
    /\ out' = From_GlobalTime_HmsTime_for_GlobalTime_HTime(input.v)
    /\ UNCHANGED input

Call_From_GlobalTime_HmTime_for_GlobalTime_HTime ==
    /\ op = "init"
    /\ input.ty = "GlobalTime_HmTime"
    /\ op' = "From_GlobalTime_HmTime_for_GlobalTime_HTime"
    /\ out' = From_GlobalTime_HmTime_for_GlobalTime_HTime(input.v)
    /\ UNCHANGED input

Call_From_GlobalTime_HmTime_for_GlobalTime_HmsTime ==
    /\ op = "init"
    /\ input.ty = "GlobalTime_HmTime"
    /\ op' = "From_GlobalTime_HmTime_for_GlobalTime_HmsTime"
    /\ out' = From_GlobalTime_HmTime_for_GlobalTime_HmsTime(input.v)
    /\ UNCHANGED input

Call_From_GlobalTime_HTime_for_GlobalTime_HmsTime ==
    /\ op = "init"
    /\ input.ty = "GlobalTime_HTime"
    /\ op' = "From_GlobalTime_HTime_for_GlobalTime_HmsTime"
    /\ out' = From_GlobalTime_HTime_for_GlobalTime_HmsTime(input.v)
    /\ UNCHANGED input

Call_From_AnyTime_HmsTime_for_AnyTime_HmTime ==
    /\ op = "init"
    /\ input.ty = "AnyTime_HmsTime"
    /\ op' = "From_AnyTime_HmsTime_for_AnyTime_HmTime"
    /\ out' = From_AnyTime_HmsTime_for_AnyTime_HmTime(input.v)
    /\ UNCHANGED input

Call_From_AnyTime_HmsTime_for_AnyTime_HTime ==
    /\ op = "init"
    /\ input.ty = "AnyTime_HmsTime"
    /\ op' = "From_AnyTime_HmsTime_for_AnyTime_HTime"
    /\ out' = From_AnyTime_HmsTime_for_AnyTime_HTime(input.v)
    /\ UNCHANGED input

Call_From_AnyTime_HmTime_for_AnyTime_HTime ==
    /\ op = "init"
    /\ input.ty = "AnyTime_HmTime"
    /\ op' = "From_AnyTime_HmTime_for_AnyTime_HTime"
    /\ out' = From_AnyTime_HmTime_for_AnyTime_HTime(input.v)
    /\ UNCHANGED input

InitWrapConv ==
    /\ \E q \in Precisions, f \in ValFractions, z \in WrapTimezones :
           \E n \in ConvNaiveValues(q) :
               \/ input = TV("GlobalTime_" \o q, GlobalTime(LocalTime(n, f), z))
               \/ input = TV("AnyTime_" \o q, AnyTime("Global", GlobalTime(LocalTime(n, f), z)))
               \/ input = TV("AnyTime_" \o q, AnyTime("Local", LocalTime(n, f)))
    /\ op = "init"
    /\ out = None

NextWrapConv ==
    \/ Call_From_GlobalTime_HmsTime_for_GlobalTime_HmTime
    \/ Call_From_GlobalTime_HmsTime_for_GlobalTime_HTime
    \/ Call_From_GlobalTime_HmTime_for_GlobalTime_HTime
    \/ Call_From_GlobalTime_HmTime_for_GlobalTime_HmsTime
    \/ Call_From_GlobalTime_HTime_for_GlobalTime_HmsTime
    \/ Call_From_AnyTime_HmsTime_for_AnyTime_HmTime
    \/ Call_From_AnyTime_HmsTime_for_AnyTime_HTime
    \/ Call_From_AnyTime_HmTime_for_AnyTime_HTime

SpecWrapConv == InitWrapConv /\ [][NextWrapConv]_vars

\* the LocalTime conversion between two precisions
LocalConv(a, b, l) ==
    CASE a = "HmsTime" /\ b = "HmTime" -> From_LocalTime_HmsTime_for_LocalTime_HmTime(l)
      [] a = "HmsTime" /\ b = "HTime" -> From_LocalTime_HmsTime_for_LocalTime_HTime(l)
      [] a = "HmTime" /\ b = "HTime" -> From_LocalTime_HmTime_for_LocalTime_HTime(l)
      [] a = "HmTime" /\ b = "HmsTime" -> From_LocalTime_HmTime_for_LocalTime_HmsTime(l)
      [] a = "HTime" /\ b = "HmsTime" -> From_LocalTime_HTime_for_LocalTime_HmsTime(l)

GlobalConvs ==
    {<<"HmsTime", "HmTime">>, <<"HmsTime", "HTime">>, <<"HmTime", "HTime">>,
     <<"HmTime", "HmsTime">>, <<"HTime", "HmsTime">>}

AnyConvs == {<<"HmsTime", "HmTime">>, <<"HmsTime", "HTime">>, <<"HmTime", "HTime">>}

\* C30: a GlobalTime conversion keeps the timezone and converts the local
\* part as the LocalTime conversion does; an AnyTime conversion keeps the
\* variant and converts what it holds in the same way.
C30_WrappersConvertLocalOnly ==
    /\ \A c \in GlobalConvs :
           (op = "From_GlobalTime_" \o c[1] \o "_for_GlobalTime_" \o c[2]) =>
               /\ out.timezone = input.v.timezone
               /\ out.local = LocalConv(c[1], c[2], input.v.local)
    /\ \A c \in AnyConvs :
           (op = "From_AnyTime_" \o c[1] \o "_for_AnyTime_" \o c[2]) =>
               /\ out.variant = input.v.variant
               /\ (input.v.variant = "Global") =>
                      /\ out.v.timezone = input.v.v.timezone
                      /\ out.v.local = LocalConv(c[1], c[2], input.v.v.local)
               /\ (input.v.variant = "Local") =>
                      out.v = LocalConv(c[1], c[2], input.v.v)

C30_Witness ==
    /\ op = "From_AnyTime_HmsTime_for_AnyTime_HmTime"
    /\ input.v = AnyTime("Global", GlobalTime(LocalTime(HmsTime(12, 30, 45), RatZero), 90))
    /\ out = AnyTime("Global", GlobalTime(LocalTime(HmTime(12, 30), Rat(3, 4)), 90))

====
